---- MODULE Spec2Model ----
(***************************************************************************)
(* State-machine model of the ops-flow graph editor: the zustand flow      *)
(* store (useFlowStore), the editor handlers that drive it                 *)
(* (FlowEditorInner, NodePalette, NodePropertiesForm) and the node-data    *)
(* query cache (flow-node-data hooks on top of TanStack Query).            *)
(***************************************************************************)
EXTENDS Integers, Sequences, FiniteSets, TLC

(***************************************************************************)
(* Bounds of the model.                                                    *)
(***************************************************************************)
MaxNodes == 2
MaxEdges == 1
MaxQueries == 2
MaxStoreEdges == 2

(***************************************************************************)
(* JavaScript values.  null/undefined ids and kinds are the string Null;   *)
(* values held in a node's open `data` bag are tagged with their JS type.  *)
(***************************************************************************)
Null == "null"

Str(s) == <<"string", s>>

Num(s) == <<"number", s>>

Undefined == <<"undefined", "">>

\* JS truthiness of an id / kind (string | null)
Truthy(v) == v # Null /\ v # ""

\* JS truthiness of a tagged data value
TruthyVal(v) ==
  \/ v[1] = "string" /\ v[2] # ""
  \/ v[1] = "number" /\ v[2] # "0"

\* obj[key] on a data bag: a missing key reads as undefined
Get(d, k) == IF k \in DOMAIN d THEN d[k] ELSE Undefined

\* { ...a, ...b }
Spread(a, b) ==
  [k \in (DOMAIN a) \cup (DOMAIN b) |-> IF k \in DOMAIN b THEN b[k] ELSE a[k]]

(***************************************************************************)
(* Kinds.                                                                  *)
(***************************************************************************)
\* the literal list tested by onPaneClick
PlaceableKinds == {"gitlab", "jenkins", "kubernetes", "sonarqube", "keycloak"}

\* the `type` of each entry of nodeTemplates in the palette
nodeTemplates == <<"gitlab", "jenkins", "kubernetes", "sonarqube", "keycloak">>

\* values handed to the store's setPendingNodeType(nodeType: string | null)
\* besides the palette's: React Flow's built-in "default" node type
OtherKinds == {"default"}

\* the characters of each kind string
KindChars ==
  [gitlab     |-> <<"g", "i", "t", "l", "a", "b">>,
   jenkins    |-> <<"j", "e", "n", "k", "i", "n", "s">>,
   kubernetes |-> <<"k", "u", "b", "e", "r", "n", "e", "t", "e", "s">>,
   sonarqube  |-> <<"s", "o", "n", "a", "r", "q", "u", "b", "e">>,
   keycloak   |-> <<"k", "e", "y", "c", "l", "o", "a", "k">>]

\* String.prototype.toUpperCase on one character
toUpperCase(c) ==
  CASE c = "g" -> "G"
    [] c = "j" -> "J"
    [] c = "k" -> "K"
    [] c = "s" -> "S"
    [] OTHER -> c

RECURSIVE Join(_)
Join(cs) == IF cs = <<>> THEN "" ELSE Head(cs) \o Join(Tail(cs))

\* mutant: the label is the kind as it is, first letter not capitalised
getNodeTypeLabel_lower(kind) == Join(KindChars[kind])

\* pendingNodeType.charAt(0).toUpperCase() + pendingNodeType.slice(1)
getNodeTypeLabel(kind) ==
  LET cs == KindChars[kind]
  IN  toUpperCase(Head(cs)) \o Join(Tail(cs))

(***************************************************************************)
(* Inputs.                                                                 *)
(***************************************************************************)
\* the value Date.now() returns during a session: the wall clock is not
\* monotonic and clicks may fall within one millisecond
Timestamps == {1}

\* canvas positions returned by screenToFlowPosition / carried by drags
Positions == {[x |-> 120, y |-> 80], [x |-> 0, y |-> 0]}

\* the one canvas position clicked in a session of Spec
SessionPositions == {[x |-> 120, y |-> 80]}

initialViewport == [x |-> 0, y |-> 0, zoom |-> 1]

Viewports == {initialViewport, [x |-> 40, y |-> 20, zoom |-> 2]}

Handles == {Null, "out"}

(***************************************************************************)
(* React Flow change application (applyNodeChanges / applyEdgeChanges).    *)
(***************************************************************************)
\* the changesMap entry of one element id
RECURSIVE ChangesFor(_, _, _)
ChangesFor(changes, id, acc) ==
  IF changes = <<>> THEN acc
  ELSE LET c == Head(changes)
       IN  IF c.type = "add" THEN ChangesFor(Tail(changes), id, acc)
           ELSE IF c.id # id THEN ChangesFor(Tail(changes), id, acc)
           ELSE IF c.type = "remove" THEN ChangesFor(Tail(changes), id, <<c>>)
           ELSE ChangesFor(Tail(changes), id, Append(acc, c))

\* applyChange(change, element)
applyChange(c, el) ==
  CASE c.type = "select"   -> [el EXCEPT !.selected = c.selected]
    [] c.type = "position" -> [el EXCEPT !.position = c.position]
    [] OTHER               -> el

RECURSIVE applyAll(_, _)
applyAll(cs, el) ==
  IF cs = <<>> THEN el ELSE applyAll(Tail(cs), applyChange(Head(cs), el))

RECURSIVE updateElements(_, _)
updateElements(changes, els) ==
  IF els = <<>> THEN <<>>
  ELSE LET el   == Head(els)
           cs   == ChangesFor(changes, el.id, <<>>)
           rest == updateElements(changes, Tail(els))
       IN  IF cs = <<>> THEN <<el>> \o rest
           ELSE IF cs[1].type = "remove" THEN rest
           ELSE <<applyAll(cs, el)>> \o rest

RECURSIVE addedItems(_)
addedItems(changes) ==
  IF changes = <<>> THEN <<>>
  ELSE IF Head(changes).type = "add"
       THEN <<Head(changes).item>> \o addedItems(Tail(changes))
       ELSE addedItems(Tail(changes))

applyChanges(changes, els) == updateElements(changes, els) \o addedItems(changes)

applyNodeChanges(changes, ns) == applyChanges(changes, ns)

applyEdgeChanges(changes, es) == applyChanges(changes, es)

(***************************************************************************)
(* Sequence helpers for Array.prototype.find / some.                        *)
(***************************************************************************)
Range(s) == {s[i] : i \in DOMAIN s}

\* changes.find(c => c.type === 'select'), Null-typed record when none
NoChange == [type |-> "none"]

RECURSIVE findSelect(_)
findSelect(changes) ==
  IF changes = <<>> THEN NoChange
  ELSE IF Head(changes).type = "select" THEN Head(changes)
       ELSE findSelect(Tail(changes))

(***************************************************************************)
(* The flow store: state and reducers (useFlowStore).                      *)
(***************************************************************************)
VARIABLES nodes, edges, viewport, selectedNodeId, pendingNodeType, isDirty,
          currentFlowId

storeVars == <<nodes, edges, viewport, selectedNodeId, pendingNodeType,
               isDirty, currentFlowId>>

\* the store's current state object
state ==
  [nodes |-> nodes, edges |-> edges, viewport |-> viewport,
   selectedNodeId |-> selectedNodeId, pendingNodeType |-> pendingNodeType,
   isDirty |-> isDirty, currentFlowId |-> currentFlowId]

\* the object passed to create(): the state after construction
initialState ==
  [nodes |-> <<>>, edges |-> <<>>, viewport |-> initialViewport,
   selectedNodeId |-> Null, pendingNodeType |-> Null, isDirty |-> FALSE,
   currentFlowId |-> Null]

\* zustand set(): the store now holds s
Set(s) ==
  /\ nodes' = s.nodes
  /\ edges' = s.edges
  /\ viewport' = s.viewport
  /\ selectedNodeId' = s.selectedNodeId
  /\ pendingNodeType' = s.pendingNodeType
  /\ isDirty' = s.isDirty
  /\ currentFlowId' = s.currentFlowId

setViewport(s, vp) == [s EXCEPT !.viewport = vp]

onNodesChange(s, changes) ==
  LET updatedNodes == applyNodeChanges(changes, s.nodes)
      found == findSelect(changes)
      sel == IF found.type = "select"
             THEN (IF found.selected THEN found.id ELSE Null)
             ELSE IF \E n \in Range(updatedNodes) : n.selected
                  THEN s.selectedNodeId
                  ELSE Null
  IN  [s EXCEPT !.nodes = updatedNodes, !.isDirty = TRUE, !.selectedNodeId = sel]

onEdgesChange(s, changes) ==
  [s EXCEPT !.edges = applyEdgeChanges(changes, s.edges), !.isDirty = TRUE]

\* mutant: a connection whose edge id is already present is dropped
onConnect_dedup(s, connection) ==
  IF ~Truthy(connection.source) \/ ~Truthy(connection.target) THEN s
  ELSE LET newEdge ==
             [id |-> "edge-" \o connection.source \o "-" \o connection.target,
              source |-> connection.source,
              target |-> connection.target,
              sourceHandle |-> connection.sourceHandle,
              targetHandle |-> connection.targetHandle]
       IN  IF \E e \in Range(s.edges) : e.id = newEdge.id THEN s
           ELSE [s EXCEPT !.edges = Append(s.edges, newEdge), !.isDirty = TRUE]

onConnect(s, connection) ==
  IF ~Truthy(connection.source) \/ ~Truthy(connection.target) THEN s
  ELSE LET newEdge ==
             [id |-> "edge-" \o connection.source \o "-" \o connection.target,
              source |-> connection.source,
              target |-> connection.target,
              sourceHandle |-> connection.sourceHandle,
              targetHandle |-> connection.targetHandle]
       IN  [s EXCEPT !.edges = Append(s.edges, newEdge), !.isDirty = TRUE]

addNode(s, node) ==
  [s EXCEPT !.nodes = Append(s.nodes, node), !.isDirty = TRUE]

\* mutant: the merge does not mark the graph dirty
updateNode_noDirty(s, nodeId, data) ==
  [s EXCEPT
     !.nodes = [i \in DOMAIN s.nodes |->
                  IF s.nodes[i].id = nodeId
                  THEN [s.nodes[i] EXCEPT !.data = Spread(s.nodes[i].data, data)]
                  ELSE s.nodes[i]]]

updateNode(s, nodeId, data) ==
  [s EXCEPT
     !.nodes = [i \in DOMAIN s.nodes |->
                  IF s.nodes[i].id = nodeId
                  THEN [s.nodes[i] EXCEPT !.data = Spread(s.nodes[i].data, data)]
                  ELSE s.nodes[i]],
     !.isDirty = TRUE]

\* mutant: the node is removed, its edges are kept
deleteNode_keepEdges(s, nodeId) ==
  LET keepNode(n) == n.id # nodeId
  IN  [s EXCEPT
         !.nodes = SelectSeq(s.nodes, keepNode),
         !.selectedNodeId =
            IF s.selectedNodeId = nodeId THEN Null ELSE s.selectedNodeId,
         !.isDirty = TRUE]

deleteNode(s, nodeId) ==
  LET keepNode(n) == n.id # nodeId
      keepEdge(e) == e.source # nodeId /\ e.target # nodeId
  IN  [s EXCEPT
         !.nodes = SelectSeq(s.nodes, keepNode),
         !.edges = SelectSeq(s.edges, keepEdge),
         !.selectedNodeId =
            IF s.selectedNodeId = nodeId THEN Null ELSE s.selectedNodeId,
         !.isDirty = TRUE]

deleteEdge(s, edgeId) ==
  LET keepEdge(e) == e.id # edgeId
  IN  [s EXCEPT !.edges = SelectSeq(s.edges, keepEdge), !.isDirty = TRUE]

setSelectedNodeId(s, nodeId) ==
  [s EXCEPT
     !.nodes = [i \in DOMAIN s.nodes |->
                  [s.nodes[i] EXCEPT !.selected = (s.nodes[i].id = nodeId)]],
     !.selectedNodeId = nodeId]

clearSelection(s) ==
  [s EXCEPT
     !.nodes = [i \in DOMAIN s.nodes |-> [s.nodes[i] EXCEPT !.selected = FALSE]],
     !.selectedNodeId = Null]

setPendingNodeType(s, nodeType) == [s EXCEPT !.pendingNodeType = nodeType]

\* an absent (undefined) viewport argument
NoViewport == [undefined |-> TRUE]

\* mutant: the selected id survives the load
loadFlow_keepSelection(s, ns, es, vp) ==
  [s EXCEPT !.nodes = ns, !.edges = es,
            !.viewport = IF vp = NoViewport THEN initialViewport ELSE vp,
            !.isDirty = FALSE]

loadFlow(s, ns, es, vp) ==
  [s EXCEPT !.nodes = ns, !.edges = es,
            !.viewport = IF vp = NoViewport THEN initialViewport ELSE vp,
            !.selectedNodeId = Null, !.isDirty = FALSE]

resetFlow(s) ==
  [s EXCEPT !.nodes = <<>>, !.edges = <<>>, !.viewport = initialViewport,
            !.selectedNodeId = Null, !.isDirty = FALSE, !.currentFlowId = Null]

setCurrentFlowId(s, flowId) == [s EXCEPT !.currentFlowId = flowId]

markDirty(s, dirty) == [s EXCEPT !.isDirty = dirty]

(***************************************************************************)
(* Editor state outside the store: the position inside the editor's        *)
(* onNodesChange handler (between its two store writes), and a record of   *)
(* the last handler that ran.                                              *)
(***************************************************************************)
VARIABLES pc, selectChange, lastOp

editorVars == <<pc, selectChange, lastOp>>

\* the QueryClient's cache: query key -> query state
VARIABLE queryCache

\* history of the session, no part of the program's state: the ids that commits
\* have synthesized so far and the last value the clock returned
VARIABLE session

\* the local state of the mounted NodePropertiesForm (useState): the node it
\* was last rendered for and its label, description and integrationId
VARIABLE form

\* the pendingNodeType the onPaneClick callback of the last render holds
VARIABLE captured

\* persistence: the flows the backend holds, the save mutations in flight,
\* the number of mutate calls so far, the flow queries of the QueryClient and
\* the toolbar's saveDialogOpen
VARIABLES backend, mutations, saveCount, flowCache, saveDialogOpen

\* history, no part of the program's state: per flow id, the store's nodes,
\* edges and viewport at the moment of the save the backend holds
VARIABLE savedFrom

persistVars ==
  <<backend, mutations, saveCount, flowCache, saveDialogOpen, savedFrom>>

viewVars == <<form, captured, persistVars>>

\* the handler name leads, so that two states reached by different handlers
\* already differ there and their arguments are never compared
vars == <<lastOp.op, storeVars, editorVars, queryCache, session, viewVars>>

\* no NodePropertiesForm is mounted
FormUnmounted ==
  [mounted |-> FALSE, node |-> "", data |-> [unmounted |-> TRUE],
   label |-> "", description |-> "", integrationId |-> ""]

\* the node synthesized by onPaneClick
newNode(kind, position, now) ==
  [id |-> kind \o "-" \o ToString(now),
   type |-> kind,
   position |-> position,
   data |-> [label |-> Str(getNodeTypeLabel(kind)),
             integrationType |-> Str(kind)],
   selected |-> FALSE]

nodeIds(ns) == {n.id : n \in Range(ns)}

edgeIds(es) == {e.id : e \in Range(es)}

\* the kinds whose templates are clicked in a session of Spec
SessionKinds == {nodeTemplates[1], nodeTemplates[2]}

\* change records React Flow emits for the rendered nodes
NodeChanges(ns) ==
  {[type |-> "select", id |-> i, selected |-> b] : i \in nodeIds(ns), b \in BOOLEAN}
  \cup {[type |-> "remove", id |-> i] : i \in nodeIds(ns)}

\* the change record of a node drag
DragChanges(ns) ==
  {[type |-> "position", id |-> i, position |-> p] :
     i \in nodeIds(ns), p \in Positions}

\* an id no node carries
AbsentId == "ghost-0"

edgeItem(source, target) ==
  [id |-> "xy-edge__" \o source \o "-" \o target,
   source |-> source, target |-> target,
   sourceHandle |-> Null, targetHandle |-> Null, selected |-> FALSE]

EdgeChanges(ns, es) ==
  {[type |-> "remove", id |-> i] : i \in edgeIds(es)}
  \cup {[type |-> "add", item |-> edgeItem(a, b)] :
          a \in {AbsentId}, b \in nodeIds(ns)}

\* change batches of one or two records
Batches(S) == [{1} -> S] \cup [{1, 2} -> S]

\* node change batches: one record, or two select records (a click on a node
\* while another is selected, a selection rectangle)
NodeBatches(ns) ==
  [{1} -> NodeChanges(ns)]
    \cup [{1, 2} -> {c \in NodeChanges(ns) : c.type = "select"}]

Adds(changes) == Len(addedItems(changes))

\* the record of a handler run: its name, its argument (a kind, an id or a
\* change batch), and the armed kind and the sizes of the graph when it started
Op(name, arg) ==
  [op |-> name, arg |-> arg, was |-> pendingNodeType,
   nodesBefore |-> Len(nodes), edgesBefore |-> Len(edges)]

\* a handler ran to completion: the store holds s
Done(name, arg, s) ==
  /\ Set(s)
  /\ pc' = "idle"
  /\ selectChange' = NoChange
  /\ lastOp' = Op(name, arg)
  /\ UNCHANGED <<queryCache, session, viewVars>>

(***************************************************************************)
(* NodePalette.handleClick                                                 *)
(***************************************************************************)
\* mutant: a click always arms, also when the same template is armed
handleClick_noToggle(nodeType) ==
  /\ pc = "idle"
  /\ Done("handleClick", nodeType, setPendingNodeType(state, nodeType))

handleClick(nodeType) ==
  /\ pc = "idle"
  /\ IF pendingNodeType = nodeType
     THEN Done("handleClick", nodeType, setPendingNodeType(state, Null))
     ELSE Done("handleClick", nodeType, setPendingNodeType(state, nodeType))

(***************************************************************************)
(* FlowEditorInner: Escape key handler and the cancel button               *)
(***************************************************************************)
\* mutant: Escape also clears the selection
handleKeyDown_clearsSelection ==
  /\ pc = "idle"
  /\ IF Truthy(pendingNodeType)
     THEN Done("handleKeyDown", "Escape",
               clearSelection(setPendingNodeType(state, Null)))
     ELSE Done("handleKeyDown", "Escape", state)

handleKeyDown ==
  /\ pc = "idle"
  /\ IF Truthy(pendingNodeType)
     THEN Done("handleKeyDown", "Escape", setPendingNodeType(state, Null))
     ELSE Done("handleKeyDown", "Escape", state)

\* the cancel button is rendered only while pendingNodeType is truthy
cancelClick ==
  /\ pc = "idle"
  /\ Truthy(pendingNodeType)
  /\ Done("cancelClick", Null, setPendingNodeType(state, Null))

(***************************************************************************)
(* FlowEditorInner.onPaneClick                                             *)
(***************************************************************************)
\* the callback over the pendingNodeType its closure holds
onPaneClickOf(s, pending, position, now) ==
  LET s1 == clearSelection(s)
  IN  IF Truthy(pending) /\ pending \in PlaceableKinds
      THEN LET node == newNode(pending, position, now)
               s2 == onNodesChange(s1, <<[type |-> "add", item |-> node]>>)
           IN  setPendingNodeType(s2, Null)
      ELSE s1

\* the callback of a render that has seen the store as it is
onPaneClickResult(s, position, now) ==
  onPaneClickOf(s, s.pendingNodeType, position, now)

onPaneClick(position, now) ==
  /\ pc = "idle"
  /\ (Truthy(pendingNodeType) /\ pendingNodeType \in PlaceableKinds)
        => Len(nodes) < MaxNodes
  /\ Done("onPaneClick", Null, onPaneClickResult(state, position, now))

\* the pane click that commits a placement, with the session's history kept:
\* Date.now() returns now, not before the value it returned last
commit(position, now) ==
  /\ pc = "idle"
  /\ Truthy(pendingNodeType) /\ pendingNodeType \in PlaceableKinds
  /\ Len(nodes) < MaxNodes
  /\ now >= session.now
  /\ Set(onPaneClickResult(state, position, now))
  /\ pc' = "idle"
  /\ selectChange' = NoChange
  /\ lastOp' = Op("onPaneClick", now)
  /\ session' = [created |-> session.created
                               \cup {newNode(pendingNodeType, position, now).id},
                 now |-> now]
  /\ UNCHANGED <<queryCache, viewVars>>

(***************************************************************************)
(* FlowEditorInner.onNodesChange: the store's onNodesChange, then          *)
(* setSelectedNodeId / clearSelection for the first select change          *)
(***************************************************************************)
editorOnNodesChange(changes) ==
  /\ pc = "idle"
  /\ Set(onNodesChange(state, changes))
  /\ lastOp' = Op("onNodesChange", changes)
  /\ UNCHANGED <<queryCache, session, viewVars>>
  /\ IF findSelect(changes).type = "select"
     THEN pc' = "selectFollowUp" /\ selectChange' = findSelect(changes)
     ELSE pc' = "idle" /\ selectChange' = NoChange

editorSelectFollowUp ==
  /\ pc = "selectFollowUp"
  /\ IF selectChange.selected
     THEN Done("onNodesChange", selectChange.id, setSelectedNodeId(state, selectChange.id))
     ELSE Done("onNodesChange", selectChange.id, clearSelection(state))

(***************************************************************************)
(* FlowEditorInner.onEdgesChange / onConnect / onNodeClick / onMove        *)
(***************************************************************************)
editorOnEdgesChange(changes) ==
  /\ pc = "idle"
  /\ Done("onEdgesChange", Null, onEdgesChange(state, changes))

editorOnConnect(connection) ==
  /\ pc = "idle"
  /\ Done("onConnect", connection, onConnect(state, connection))

onNodeClick(nodeId) ==
  /\ pc = "idle"
  /\ Done("onNodeClick", nodeId, setSelectedNodeId(state, nodeId))

onMove(vp) ==
  /\ pc = "idle"
  /\ Done("onMove", Null, setViewport(state, vp))

(***************************************************************************)
(* Store operations called directly                                        *)
(***************************************************************************)
callAddNode(node) ==
  /\ pc = "idle"
  /\ Len(nodes) < MaxNodes
  /\ Done("addNode", node.id, addNode(state, node))

callDeleteNode(nodeId) ==
  /\ pc = "idle"
  /\ Done("deleteNode", nodeId, deleteNode(state, nodeId))

callDeleteEdge(edgeId) ==
  /\ pc = "idle"
  /\ Done("deleteEdge", edgeId, deleteEdge(state, edgeId))

callSetPendingNodeType(nodeType) ==
  /\ pc = "idle"
  /\ Done("setPendingNodeType", nodeType, setPendingNodeType(state, nodeType))

\* FlowEditorToolbar.handleNew, confirmed
handleNew ==
  /\ pc = "idle"
  /\ Done("handleNew", Null, resetFlow(state))

callUpdateNode(nodeId, data) ==
  /\ pc = "idle"
  /\ Done("updateNode", nodeId, updateNode(state, nodeId, data))

callClearSelection ==
  /\ pc = "idle"
  /\ Done("clearSelection", Null, clearSelection(state))

(***************************************************************************)
(* FlowEditorView: the effect that loads the fetched flow into the store   *)
(***************************************************************************)
\* flows the backend returns: what earlier sessions saved.  A saved node
\* keeps the selected flag it had when it was saved; viewport may be absent
SavedFlows ==
  LET a == newNode("gitlab", [x |-> 120, y |-> 80], 1)
      b == newNode("jenkins", [x |-> 0, y |-> 0], 1)
  IN  { [nodes |-> <<>>, edges |-> <<>>, viewport |-> NoViewport],
        [nodes |-> <<[a EXCEPT !.selected = TRUE], b>>,
         edges |-> <<[id |-> "edge-" \o a.id \o "-" \o b.id,
                      source |-> a.id, target |-> b.id,
                      sourceHandle |-> Null, targetHandle |-> Null]>>,
         viewport |-> [x |-> 40, y |-> 20, zoom |-> 2]] }

\* if (flow && flow.nodes && flow.edges) loadFlow(nodes, edges, viewport || undefined)
loadEffect(flow) ==
  /\ pc = "idle"
  /\ Done("loadFlow", flow, loadFlow(state, flow.nodes, flow.edges, flow.viewport))

(***************************************************************************)
(* Persistence: the save handlers of FlowEditorToolbar, useSaveFlow,       *)
(* useFlow and the load effect of FlowEditorView.  The backend commands    *)
(* saveFlow and loadFlow keep a flow per id and return it as it was saved. *)
(***************************************************************************)
MaxSaves == 2

\* `flow-${Date.now()}`
newFlowId(now) == "flow-" \o ToString(now)

\* a flow query without data
NoFlow == [none |-> TRUE]

\* the variables handleSave and handleSaveConfirm pass to mutate: the nodes
\* and edges of the store, and no viewport
saveVariables(s, flowId) ==
  [flowId |-> flowId, nodes |-> s.nodes, edges |-> s.edges,
   viewport |-> NoViewport]

\* the Flow the mutationFn builds at the instant `at`; viewport || null
buildFlow(variables, at) ==
  [id |-> variables.flowId, updated_at |-> at, nodes |-> variables.nodes,
   edges |-> variables.edges, viewport |-> variables.viewport]

\* commands.saveFlow(flow) and commands.loadFlow(flowId)
backendSave(stored, flow) ==
  [id \in DOMAIN stored \cup {flow.id} |->
     IF id = flow.id THEN flow ELSE stored[id]]

backendLoad(stored, flowId) == stored[flowId]

\* the state of a flow query built by its first observer
newFlowQuery == [fetching |-> FALSE, data |-> NoFlow, isInvalidated |-> FALSE]

\* useFlow(flowId) in a render of FlowEditorView: enabled: !!flowId; the query
\* of the id is built, and fetched when it is idle and has no data or is
\* invalidated
useFlow(cache, flowId) ==
  IF ~Truthy(flowId) THEN cache
  ELSE LET q == IF flowId \in DOMAIN cache THEN cache[flowId] ELSE newFlowQuery
       IN  [id \in DOMAIN cache \cup {flowId} |->
              IF id # flowId THEN cache[id]
              ELSE IF ~q.fetching /\ (q.data = NoFlow \/ q.isInvalidated)
              THEN [q EXCEPT !.fetching = TRUE]
              ELSE q]

\* onSuccess of useSaveFlow: invalidateQueries of flows() and of
\* flow(flowId); the key of flows() is a prefix of every flow query's key, so
\* every flow query is invalidated and the observed one is fetched again
invalidateFlows(cache, observedId) ==
  [id \in DOMAIN cache |->
     [cache[id] EXCEPT !.isInvalidated = TRUE,
                       !.fetching = @ \/ id = observedId]]

\* saveFlow.isPending: the mutation of the last mutate call is in flight
isPending == \E i \in DOMAIN mutations : mutations[i].n = saveCount

\* what the store held when mutate was called
storeAtSave(s) ==
  [nodes |-> s.nodes, edges |-> s.edges, viewport |-> s.viewport,
   selectedNodeId |-> s.selectedNodeId]

\* saveFlow.mutate(variables, options): the n-th call of the session
mutate(variables, confirm) ==
  /\ saveCount < MaxSaves
  /\ saveCount' = saveCount + 1
  /\ mutations' = Append(mutations, [n |-> saveCount + 1,
                                     variables |-> variables,
                                     confirm |-> confirm])
  /\ savedFrom' = [n \in DOMAIN savedFrom \cup {saveCount + 1} |->
                     IF n = saveCount + 1 THEN storeAtSave(state)
                     ELSE savedFrom[n]]

\* a step of the persistence layer: the store holds s
DonePersist(name, arg, s) ==
  /\ Set(s)
  /\ pc' = "idle"
  /\ selectChange' = NoChange
  /\ lastOp' = Op(name, arg)
  /\ UNCHANGED <<queryCache, session, form, captured>>

\* FlowEditorToolbar.handleSave; the button is disabled while isPending and
\* out of reach while the save dialog is open
handleSave ==
  /\ pc = "idle"
  /\ ~saveDialogOpen
  /\ ~isPending
  /\ IF Truthy(currentFlowId)
     THEN /\ mutate(saveVariables(state, currentFlowId), FALSE)
          /\ DonePersist("handleSave", Null, markDirty(state, FALSE))
          /\ UNCHANGED <<backend, flowCache, saveDialogOpen>>
     ELSE /\ saveDialogOpen' = TRUE
          /\ DonePersist("handleSave", Null, state)
          /\ UNCHANGED <<backend, mutations, saveCount, flowCache, savedFrom>>

\* FlowEditorToolbar.handleSaveConfirm, the confirm button of the save dialog
handleSaveConfirm(now) ==
  /\ pc = "idle"
  /\ saveDialogOpen
  /\ LET flowId == IF Truthy(currentFlowId) THEN currentFlowId
                   ELSE newFlowId(now)
     IN  mutate(saveVariables(state, flowId), TRUE)
  /\ DonePersist("handleSaveConfirm", Null, state)
  /\ UNCHANGED <<backend, flowCache, saveDialogOpen>>

\* the cancel button of the save dialog, or its onOpenChange
closeSaveDialog ==
  /\ pc = "idle"
  /\ saveDialogOpen
  /\ saveDialogOpen' = FALSE
  /\ DonePersist("closeSaveDialog", Null, state)
  /\ UNCHANGED <<backend, mutations, saveCount, flowCache, savedFrom>>

\* s without its i-th element
RemoveAt(s, i) == SubSeq(s, 1, i - 1) \o SubSeq(s, i + 1, Len(s))

\* commands.saveFlow of the i-th mutation in flight returns ok: the onSuccess
\* of useSaveFlow runs, then the onSuccess given to mutate when the mutation
\* is the last one of the observer, and FlowEditorView renders with the
\* store's currentFlowId
saveResolves(i) ==
  /\ pc = "idle"
  /\ LET m == mutations[i]
         invalidated == invalidateFlows(flowCache, currentFlowId)
         notified == m.confirm /\ m.n = saveCount
         s == IF notified
              THEN markDirty(setCurrentFlowId(state, m.variables.flowId), FALSE)
              ELSE state
     IN  /\ backend' = backendSave(backend, buildFlow(m.variables, m.n))
         /\ mutations' = RemoveAt(mutations, i)
         /\ saveDialogOpen' = (saveDialogOpen /\ ~notified)
         /\ flowCache' = useFlow(invalidated, s.currentFlowId)
         /\ DonePersist("saveResolves", Null, s)
  /\ UNCHANGED <<saveCount, savedFrom>>

\* commands.saveFlow of the i-th mutation in flight returns an error: the
\* mutationFn throws, no onSuccess runs
saveRejects(i) ==
  /\ pc = "idle"
  /\ mutations' = RemoveAt(mutations, i)
  /\ DonePersist("saveRejects", Null, state)
  /\ UNCHANGED <<backend, saveCount, flowCache, saveDialogOpen, savedFrom>>

\* commands.loadFlow(flowId) of the fetch in flight returns the stored flow;
\* when the observed query's data changed, FlowEditorView renders and its
\* load effect runs: loadFlow(nodes, edges, viewport || undefined)
flowFetchResolves(flowId) ==
  /\ pc = "idle"
  /\ flowId \in DOMAIN flowCache
  /\ flowCache[flowId].fetching
  /\ flowId \in DOMAIN backend
  /\ LET flow == backendLoad(backend, flowId)
     IN  /\ flowCache' = [flowCache EXCEPT ![flowId] =
                            [fetching |-> FALSE, data |-> flow,
                             isInvalidated |-> FALSE]]
         /\ IF flow # flowCache[flowId].data /\ flowId = currentFlowId
            THEN DonePersist("loadFlow", flow,
                             loadFlow(state, flow.nodes, flow.edges, flow.viewport))
            ELSE DonePersist("useFlow", Null, state)
  /\ UNCHANGED <<backend, mutations, saveCount, saveDialogOpen, savedFrom>>

(***************************************************************************)
(* Property editor: NodeDetailsPanel renders NodePropertiesForm for the    *)
(* selected node.  The repository holds two NodePropertiesForm components. *)
(***************************************************************************)
\* ids of the configured integrations offered by the integration Select
IntegrationIds == {"int-1", "int-2"}

\* option values of the item Select: a project id for gitlab, a name otherwise
ItemOptions(nodeType) == IF nodeType = "gitlab" THEN {"7"} ELSE {"main"}

\* selectedNode is not null: some node carries the selected id
hasSelectedNode(s) ==
  /\ Truthy(s.selectedNodeId)
  /\ \E i \in DOMAIN s.nodes : s.nodes[i].id = s.selectedNodeId

\* nodes.find(n => n.id === selectedNodeId): the first node with that id
selectedNode(s) ==
  LET first == CHOOSE i \in DOMAIN s.nodes :
                  /\ s.nodes[i].id = s.selectedNodeId
                  /\ \A j \in DOMAIN s.nodes :
                        s.nodes[j].id = s.selectedNodeId => i <= j
  IN  s.nodes[first]

\* the data key written by the switch on nodeType; Null for the default case
selectedField(nodeType) ==
  CASE nodeType = "gitlab"     -> "selectedProjectId"
    [] nodeType = "jenkins"    -> "selectedJobName"
    [] nodeType = "kubernetes" -> "selectedNamespace"
    [] nodeType = "sonarqube"  -> "selectedProjectKey"
    [] nodeType = "keycloak"   -> "selectedRealm"
    [] OTHER                    -> Null

\* the form's integrationId state: (node.data.integrationId as string) || ''
formIntegrationId(node) ==
  LET v == Get(node.data, "integrationId")
  IN  IF TruthyVal(v) THEN v[2] ELSE ""

\* the value shown by the item Select
selectedItemValue(node) ==
  LET v == IF selectedField(node.type) = Null
           THEN Undefined
           ELSE Get(node.data, selectedField(node.type))
  IN  IF TruthyVal(v) THEN v[2] ELSE ""

\* the updates object of handleIntegrationChange
integrationUpdates(nodeType, value) ==
  IF selectedField(nodeType) = Null
  THEN [integrationId |-> Str(value)]
  ELSE ("integrationId" :> Str(value)) @@ (selectedField(nodeType) :> Undefined)

\* the updates object of handleItemChange
itemUpdates(nodeType, value) ==
  CASE selectedField(nodeType) = Null -> <<>>
    [] nodeType = "gitlab" ->
         (selectedField(nodeType) :> (IF value # "" THEN Num(value) ELSE Undefined))
    [] OTHER ->
         (selectedField(nodeType) :> (IF value # "" THEN Str(value) ELSE Undefined))

\* v || '' for a string field of node.data
orEmpty(v) == IF TruthyVal(v) THEN v[2] ELSE ""

\* the three values the form takes from node.data, in useState's initial
\* values and in the reset effect
formFields(node) ==
  [label |-> orEmpty(Get(node.data, "label")),
   description |-> orEmpty(Get(node.data, "description")),
   integrationId |-> formIntegrationId(node)]

\* the form is on screen, rendered for the selected node as the store holds it
formShown ==
  /\ hasSelectedNode(state)
  /\ form.mounted
  /\ form.node = selectedNode(state).id
  /\ form.data = selectedNode(state).data

\* a handler of the form ran to completion: the store holds s, the form f
DoneForm(name, arg, s, f) ==
  /\ Set(s)
  /\ pc' = "idle"
  /\ selectChange' = NoChange
  /\ lastOp' = Op(name, arg)
  /\ form' = f
  /\ UNCHANGED <<queryCache, session, captured, persistVars>>

\* texts typed into the label and description inputs
FieldTexts == {"", "deploy"}

handleLabelChange(value) ==
  /\ pc = "idle"
  /\ formShown
  /\ value # form.label
  /\ DoneForm("handleLabelChange", value,
              updateNode(state, selectedNode(state).id, [label |-> Str(value)]),
              [form EXCEPT !.label = value])

handleDescriptionChange(value) ==
  /\ pc = "idle"
  /\ formShown
  /\ value # form.description
  /\ DoneForm("handleDescriptionChange", value,
              updateNode(state, selectedNode(state).id,
                         [description |-> Str(value)]),
              [form EXCEPT !.description = value])

\* the form with the item selector; the Select reports a change of its value
handleIntegrationChange(value) ==
  /\ pc = "idle"
  /\ formShown
  /\ LET node == selectedNode(state)
     IN  /\ value # form.integrationId
         /\ DoneForm("handleIntegrationChange", value,
                     updateNode(state, node.id,
                                integrationUpdates(node.type, value)),
                     [form EXCEPT !.integrationId = value])

\* rendered while the form's integrationId is set and the listing is not empty
handleItemChange(value) ==
  /\ pc = "idle"
  /\ formShown
  /\ LET node == selectedNode(state)
     IN  /\ form.integrationId # ""
         /\ value \in ItemOptions(node.type)
         /\ value # selectedItemValue(node)
         /\ DoneForm("handleItemChange", value,
                     updateNode(state, node.id, itemUpdates(node.type, value)),
                     form)

\* the form without the item selector; the input reports a change of its text
handleIntegrationIdChange(value) ==
  /\ pc = "idle"
  /\ formShown
  /\ LET node == selectedNode(state)
     IN  /\ value # form.integrationId
         /\ DoneForm("handleIntegrationIdChange", value,
                     updateNode(state, node.id, [integrationId |-> Str(value)]),
                     [form EXCEPT !.integrationId = value])

(***************************************************************************)
(* Integration data cache: the useQuery hooks of flow-node-data.ts and     *)
(* useK8sNamespaces, over the QueryClient's cache                          *)
(***************************************************************************)
\* the five node-data hooks, by node kind, and useK8sNamespaces
NodeDataFamilies == PlaceableKinds

K8sNamespaces == "k8sNamespaces"

\* useJenkinsJobs of the jenkins service
JenkinsJobs == "jenkinsJobs"

\* the messages of the errors a fetch command reports
Errors == {"401", "500"}

\* a failure that is not an authorization failure
CacheErrors == {"500"}

\* the listings a fetch command returns
Listings == {<<"main">>, <<>>}

\* the hook's argument: an integration id, or null for an unbound node
HookArgs == IntegrationIds \cup {Null}

\* mutant: the key leaves the integration id out
flowNodeDataQueryKeys_noId(kind, integrationId) == <<"flow-node-data", kind>>

flowNodeDataQueryKeys(kind, integrationId) ==
  <<"flow-node-data", kind, integrationId>>

k8sQueryKeys_namespaces(integrationId) ==
  <<"kubernetes", "namespaces", integrationId>>

jenkinsQueryKeys_jobs(integrationId) == <<"jenkins", "jobs", integrationId>>

\* the queryKey option of each hook: integrationId || ''
queryKey(family, integrationId) ==
  LET id == IF Truthy(integrationId) THEN integrationId ELSE ""
  IN  IF family = K8sNamespaces
      THEN k8sQueryKeys_namespaces(id)
      ELSE IF family = JenkinsJobs
      THEN jenkinsQueryKeys_jobs(id)
      ELSE flowNodeDataQueryKeys(family, id)

\* the enabled option of each hook: !!integrationId
enabled(integrationId) == Truthy(integrationId)

\* retries granted to a query whose hook sets no retry option
defaultRetry == 3

\* the retry option of useK8sNamespaces
k8sNamespacesRetry(failureCount, error) ==
  IF error \in {"401", "403", "Failed to connect"}
  THEN FALSE
  ELSE failureCount < 3

\* mutant: two more retries
jenkinsJobsRetry_five(failureCount, error) ==
  IF error = "401" THEN FALSE ELSE failureCount < 5

\* the retry option of useJenkinsJobs; error.message.includes('401')
jenkinsJobsRetry(failureCount, error) ==
  IF error = "401" THEN FALSE ELSE failureCount < 3

\* the retryer's decision after a failed attempt; the node-data hooks set no
\* retry option
shouldRetry(family, failureCount, error) ==
  IF family = K8sNamespaces
  THEN k8sNamespacesRetry(failureCount, error)
  ELSE IF family = JenkinsJobs
  THEN jenkinsJobsRetry(failureCount, error)
  ELSE failureCount < defaultRetry

EmptyCache == [k \in {} |-> Null]

\* the state of a query built by its first observer.  stale: the data is
\* older than staleTime.  commands is no part of the query state: it counts
\* the invocations of the hook's fetch command that have not returned yet
newQuery ==
  [status |-> "pending", fetchStatus |-> "idle", data |-> Undefined,
   error |-> Null, fetchFailureCount |-> 0, fetchFailureReason |-> Null,
   stale |-> FALSE, isInvalidated |-> FALSE, commands |-> 0]

\* the query reducer's actions
fetchAction(q) ==
  IF q.data = Undefined
  THEN [q EXCEPT !.fetchStatus = "fetching", !.fetchFailureCount = 0,
                 !.fetchFailureReason = Null, !.error = Null, !.status = "pending"]
  ELSE [q EXCEPT !.fetchStatus = "fetching", !.fetchFailureCount = 0,
                 !.fetchFailureReason = Null]

failedAction(q, error) ==
  [q EXCEPT !.fetchFailureCount = q.fetchFailureCount + 1,
            !.fetchFailureReason = error]

successAction(q, data) ==
  [q EXCEPT !.data = data, !.error = Null, !.status = "success",
            !.fetchStatus = "idle", !.fetchFailureCount = 0,
            !.fetchFailureReason = Null, !.stale = FALSE,
            !.isInvalidated = FALSE]

errorAction(q, error) ==
  [q EXCEPT !.error = error, !.status = "error", !.fetchStatus = "idle",
            !.fetchFailureCount = q.fetchFailureCount + 1,
            !.fetchFailureReason = error]

\* the retryer starts: the queryFn runs and invokes the fetch command
startFetch(q) == [fetchAction(q) EXCEPT !.commands = q.commands + 1]

\* the command of the current fetch has returned
commandReturned(q) == [q EXCEPT !.commands = q.commands - 1]

\* an observer fetches on mount when the query has no data or stale data
shouldFetchOnMount(q, integrationId) ==
  /\ enabled(integrationId)
  /\ q.fetchStatus = "idle"
  /\ q.data = Undefined \/ q.stale \/ q.isInvalidated

\* the cache after a component calling the hook of `family` has mounted
mountQuery(cache, family, integrationId) ==
  LET key == queryKey(family, integrationId)
      q == IF key \in DOMAIN cache THEN cache[key] ELSE newQuery
  IN  [k \in DOMAIN cache \cup {key} |->
         IF k # key THEN cache[k]
         ELSE IF shouldFetchOnMount(q, integrationId) THEN startFetch(q) ELSE q]

SetQuery(key, q) ==
  /\ queryCache' = [k \in DOMAIN queryCache \cup {key} |->
                      IF k = key THEN q ELSE queryCache[k]]
  /\ lastOp' = Op("useQuery", Null)
  /\ UNCHANGED <<storeVars, pc, selectChange, session, viewVars>>

Fetching(key) ==
  key \in DOMAIN queryCache /\ queryCache[key].fetchStatus = "fetching"

\* a component calling the hook of `family` with integrationId mounts
useNodeData(family, integrationId) ==
  LET key == queryKey(family, integrationId)
  IN  /\ key \in DOMAIN queryCache \/ Cardinality(DOMAIN queryCache) < MaxQueries
      /\ SetQuery(key, mountQuery(queryCache, family, integrationId)[key])

\* the fetch command of the hook returns a listing
fetchResolves(family, integrationId, data) ==
  LET key == queryKey(family, integrationId)
  IN  /\ Fetching(key)
      /\ SetQuery(key, commandReturned(successAction(queryCache[key], data)))

\* the fetch command reports an error: queryFn throws new Error(result.error);
\* when the retryer retries, the queryFn runs again and invokes the command anew
fetchRejects(family, integrationId, error) ==
  LET key == queryKey(family, integrationId)
      q == queryCache[key]
  IN  /\ Fetching(key)
      /\ SetQuery(key, IF shouldRetry(family, q.fetchFailureCount, error)
                       THEN failedAction(q, error)
                       ELSE commandReturned(errorAction(q, error)))

\* the flags useQuery derives from the query state
isLoading(q) == q.fetchStatus = "fetching" /\ q.status = "pending"

isError(q) == q.status = "error"

\* mutant: any fetched array counts as success
nodeStatus_anyArray(q) ==
  IF isLoading(q) THEN "loading"
  ELSE IF isError(q) THEN "error"
  ELSE IF q.data # Undefined THEN "success"
  ELSE "initial"

\* the status a node renderer passes to NodeStatusIndicator
nodeStatus(q) ==
  IF isLoading(q) THEN "loading"
  ELSE IF isError(q) THEN "error"
  ELSE IF q.data # Undefined /\ Len(q.data) > 0 THEN "success"
  ELSE "initial"

\* staleTime (30 s) passes since the data arrived
staleTimeElapses(family, integrationId) ==
  LET key == queryKey(family, integrationId)
  IN  /\ key \in DOMAIN queryCache
      /\ queryCache[key].status = "success"
      /\ queryCache[key].fetchStatus = "idle"
      /\ ~queryCache[key].stale
      /\ SetQuery(key, [queryCache[key] EXCEPT !.stale = TRUE])

\* a fetch that was cancelled silently goes on in the backend: its command
\* returns and the result is dropped
cancelledCommandReturns(key) ==
  /\ key \in DOMAIN queryCache
  /\ queryCache[key].commands >
        (IF queryCache[key].fetchStatus = "fetching" THEN 1 ELSE 0)
  /\ SetQuery(key, commandReturned(queryCache[key]))

(***************************************************************************)
(* The consumers of the node data: the node renderers, NodeDetailsPanel    *)
(* and the NodePropertiesForm it shows, all for nodes of the store         *)
(***************************************************************************)
\* data.integrationId ? String(data.integrationId) : null
nodeIntegrationId(node) ==
  LET v == Get(node.data, "integrationId")
  IN  IF TruthyVal(v) THEN v[2] ELSE Null

\* a node renderer (GitLabNode .. KeycloakNode) mounts: the hook of its kind
nodeRenderer(node) ==
  /\ pc = "idle"
  /\ node.type \in NodeDataFamilies
  /\ queryCache' = mountQuery(queryCache, node.type, nodeIntegrationId(node))
  /\ lastOp' = Op("useQuery", Null)
  /\ UNCHANGED <<storeVars, pc, selectChange, session, viewVars>>

\* the argument the panel and the form pass to the hook of `family`:
\* nodeType === family ? integrationId : null
panelHookArg(family, nodeType, integrationId) ==
  IF nodeType = family THEN integrationId ELSE Null

\* the five hook calls of one component, in the order of the calls
panelQueries(cache, nodeType, integrationId) ==
  LET use(c, family) ==
        mountQuery(c, family, panelHookArg(family, nodeType, integrationId))
  IN  use(use(use(use(use(cache, "gitlab"), "jenkins"), "kubernetes"),
              "sonarqube"), "keycloak")

\* the query the switch on nodeType picks; none in the default case
hasPanelQuery(nodeType) == nodeType \in NodeDataFamilies

\* { data, isLoading, isError } of the panel, by the switch on nodeType
panelView(cache, nodeType, integrationId) ==
  IF hasPanelQuery(nodeType)
  THEN LET q == cache[queryKey(nodeType,
                               panelHookArg(nodeType, nodeType, integrationId))]
       IN  [data |-> q.data, isLoading |-> isLoading(q), isError |-> isError(q)]
  ELSE [data |-> Undefined, isLoading |-> FALSE, isError |-> FALSE]

\* currentData of the form: the picked query's data || [], [] by default
currentData(cache, nodeType, integrationId) ==
  IF hasPanelQuery(nodeType)
  THEN LET q == cache[queryKey(nodeType,
                               panelHookArg(nodeType, nodeType, integrationId))]
       IN  IF q.data = Undefined THEN <<>> ELSE q.data
  ELSE <<>>

\* what the panel shows: the kind and the integration id of the selected node
panelArgs(s) ==
  [nodeType |-> selectedNode(s).type,
   integrationId |-> nodeIntegrationId(selectedNode(s))]

\* the argument the form passes to the hook of `family`:
\* nodeType === family && integrationId ? integrationId : null, over the
\* form's own integrationId
formHookArg(family, nodeType, integrationId) ==
  IF nodeType = family /\ integrationId # "" THEN integrationId ELSE Null

\* the five hook calls of the form, in the order of the calls
formQueries(cache, nodeType, integrationId) ==
  LET use(c, family) ==
        mountQuery(c, family, formHookArg(family, nodeType, integrationId))
  IN  use(use(use(use(use(cache, "gitlab"), "jenkins"), "kubernetes"),
              "sonarqube"), "keycloak")

\* mutant: the reset effect leaves the form's integrationId as it is
resetFields_keepIntegration(f, node) ==
  [formFields(node) EXCEPT !.integrationId = f.integrationId]

\* the reset effect: setLabel, setDescription, setIntegrationId from node.data
resetFields(f, node) == formFields(node)

\* the form with the fields `fields`, rendered for node
formOf(node, fields) ==
  [mounted |-> TRUE, node |-> node.id, data |-> node.data,
   label |-> fields.label, description |-> fields.description,
   integrationId |-> fields.integrationId]

\* NodePropertiesForm renders for node over the local state f (useState's
\* initial values when it mounts) and its effects run: the hooks' own, which
\* apply the rendered options to the queries, then the reset effect when
\* node.id or node.data changed; a changed local state renders once more
NodePropertiesForm(cache, f, node) ==
  LET local == IF f.mounted THEN f ELSE formOf(node, formFields(node))
      rendered == formQueries(cache, node.type, local.integrationId)
      depsChanged == ~f.mounted \/ f.node # node.id \/ f.data # node.data
      reset == IF depsChanged THEN resetFields(local, node)
               ELSE [label |-> local.label, description |-> local.description,
                     integrationId |-> local.integrationId]
  IN  [form |-> formOf(node, reset),
       cache |-> IF reset.integrationId # local.integrationId
                 THEN formQueries(rendered, node.type, reset.integrationId)
                 ELSE rendered]

\* the jenkins items of the listings, by name, with the color of each
jobColor(name) ==
  CASE name = "build" -> "blue"
    [] name = "ops" -> "folder"
    [] name = "draft" -> "notbuilt"
    [] name = "ops/deploy" -> "notbuilt"

\* j.name.includes('/')
includesSlash(name) == name \in {"ops/deploy"}

\* j.color === 'folder' || (j.color === 'notbuilt' && !j.name.includes('/'))
isFolder(name) ==
  \/ jobColor(name) = "folder"
  \/ jobColor(name) = "notbuilt" /\ ~includesSlash(name)

\* one SelectItem per element of items
selectItemsOf(items, isDisabled) ==
  [i \in 1..Len(items) |-> [value |-> items[i], disabled |-> isDisabled]]

\* mutant: every jenkins item is an enabled option
jenkinsOptions_all(jobs) == selectItemsOf(jobs, FALSE)

\* the SelectItems of a jenkins node: the jobs that are no folders, or the
\* folders, disabled, when there is no such job
jenkinsOptions(jobs) ==
  LET folders == SelectSeq(jobs, isFolder)
      notFolder(j) == ~\E i \in 1..Len(folders) : folders[i] = j
      actualJobs == SelectSeq(jobs, notFolder)
  IN  IF Len(actualJobs) = 0 /\ Len(folders) > 0
      THEN selectItemsOf(folders, TRUE)
      ELSE selectItemsOf(actualJobs, FALSE)

\* the SelectItems of the item Select, by nodeType; the value of an option is
\* the item's id.toString(), name, name, key or realm
selectItems(nodeType, data) ==
  IF nodeType = "jenkins" THEN jenkinsOptions(data)
  ELSE IF nodeType \in NodeDataFamilies THEN selectItemsOf(data, FALSE)
  ELSE <<>>

\* the item Select of the form f rendered for node: rendered when
\* integrationId && nodeType && currentData.length > 0
itemSelect(cache, f, node) ==
  IF f.integrationId # "" /\ Truthy(node.type)
  THEN LET data == currentData(cache, node.type, f.integrationId)
       IN  IF Len(data) > 0
           THEN [rendered |-> TRUE, options |-> selectItems(node.type, data)]
           ELSE [rendered |-> FALSE, options |-> <<>>]
  ELSE [rendered |-> FALSE, options |-> <<>>]

\* what the panel shows when no node is selected
NoPanelArgs == [nodeType |-> Null, integrationId |-> Null]

\* NodeDetailsPanel renders: for the selected node its five hook calls and
\* the NodePropertiesForm; with no selected node it returns early and the
\* form is unmounted
NodeDetailsPanel ==
  /\ pc = "idle"
  /\ IF hasSelectedNode(state)
     THEN LET a == panelArgs(state)
              r == NodePropertiesForm(queryCache, form, selectedNode(state))
          IN  /\ queryCache' = panelQueries(r.cache, a.nodeType, a.integrationId)
              /\ form' = r.form
              /\ lastOp' = Op("NodeDetailsPanel", a)
     ELSE /\ form' = FormUnmounted
          /\ lastOp' = Op("NodeDetailsPanel", NoPanelArgs)
          /\ UNCHANGED queryCache
  /\ UNCHANGED <<storeVars, pc, selectChange, session, captured, persistVars>>

\* the panel has rendered for this node: its five queries are in the cache
panelRendered(cache, nodeType, integrationId) ==
  \A family \in NodeDataFamilies :
     queryKey(family, panelHookArg(family, nodeType, integrationId)) \in DOMAIN cache

\* partialMatchKey: the filter's key is a prefix of the query's key
matchesKey(filterKey, key) ==
  /\ Len(filterKey) <= Len(key)
  /\ SubSeq(key, 1, Len(filterKey)) = filterKey

\* query.fetch with cancelRefetch: a fetch in flight that has data is cancelled
\* silently and a new one starts; one without data is joined
refetchQuery(q) ==
  IF q.fetchStatus # "idle" /\ q.data = Undefined THEN q ELSE startFetch(q)

\* queryClient.invalidateQueries({ queryKey }): every matching query is marked
\* invalidated, then the matching queries under observation are fetched again
\* (a query with an integration id stays observed by its node renderer)
invalidateQueries(cache, filterKey) ==
  [k \in DOMAIN cache |->
     IF matchesKey(filterKey, k)
     THEN refetchQuery([cache[k] EXCEPT !.isInvalidated = TRUE])
     ELSE cache[k]]

\* mutant: the refresh invalidates every node-data query
refreshQueryKey_all(nodeType, integrationId) == <<"flow-node-data">>

\* the queryKey handleRefresh builds for the five kinds
refreshQueryKey(nodeType, integrationId) ==
  flowNodeDataQueryKeys(nodeType, integrationId)

\* NodeDetailsPanel.handleRefresh; the button is disabled while isLoading
handleRefresh ==
  /\ pc = "idle"
  /\ hasSelectedNode(state)
  /\ LET a == panelArgs(state)
     IN  /\ panelRendered(queryCache, a.nodeType, a.integrationId)
         /\ ~panelView(queryCache, a.nodeType, a.integrationId).isLoading
         /\ lastOp' = Op("handleRefresh", a)
         /\ IF ~Truthy(a.integrationId) \/ ~Truthy(a.nodeType)
            THEN UNCHANGED queryCache
            ELSE IF ~hasPanelQuery(a.nodeType)
            THEN UNCHANGED queryCache
            ELSE LET key == queryKey(a.nodeType, a.integrationId)
                     invalidated ==
                       invalidateQueries(queryCache,
                                         refreshQueryKey(a.nodeType, a.integrationId))
                 IN  queryCache' =
                       [invalidated EXCEPT ![key] = refetchQuery(invalidated[key])]
  /\ UNCHANGED <<storeVars, pc, selectChange, session, viewVars>>

(***************************************************************************)
(* Spec: one editing session on the graph                                  *)
(***************************************************************************)
Init ==
  /\ nodes = initialState.nodes
  /\ edges = initialState.edges
  /\ viewport = initialState.viewport
  /\ selectedNodeId = initialState.selectedNodeId
  /\ pendingNodeType = initialState.pendingNodeType
  /\ isDirty = initialState.isDirty
  /\ currentFlowId = initialState.currentFlowId
  /\ pc = "idle"
  /\ selectChange = NoChange
  /\ lastOp = [op |-> "create", arg |-> Null, was |-> Null,
               nodesBefore |-> 0, edgesBefore |-> 0]
  /\ queryCache = EmptyCache
  /\ session = [created |-> {}, now |-> 0]
  /\ form = FormUnmounted
  /\ captured = initialState.pendingNodeType
  /\ backend = <<>>
  /\ mutations = <<>>
  /\ saveCount = 0
  /\ flowCache = <<>>
  /\ saveDialogOpen = FALSE
  /\ savedFrom = <<>>

Next ==
  \/ \E k \in SessionKinds : handleClick(k)
  \/ handleKeyDown
  \/ cancelClick
  \/ \E p \in SessionPositions, now \in Timestamps : onPaneClick(p, now)
  \/ \E changes \in NodeBatches(nodes) : editorOnNodesChange(changes)
  \/ editorSelectFollowUp
  \/ \E changes \in Batches(EdgeChanges(nodes, edges)) :
        /\ Len(edges) + Adds(changes) <= MaxEdges
        /\ editorOnEdgesChange(changes)
  \/ \E a \in nodeIds(nodes) \cup {Null}, b \in nodeIds(nodes) \cup {Null} :
        /\ Len(edges) < MaxEdges
        /\ editorOnConnect([source |-> a, target |-> b,
                            sourceHandle |-> Null, targetHandle |-> Null])
  \/ \E n \in Range(nodes) : onNodeClick(n.id)
  \/ \E k \in SessionKinds, p \in SessionPositions, now \in Timestamps :
        callAddNode(newNode(k, p, now))
  \/ \E i \in nodeIds(nodes) \cup {AbsentId} : callDeleteNode(i)
  \/ \E i \in edgeIds(edges) : callDeleteEdge(i)
  \/ handleNew

Spec == Init /\ [][Next]_vars

(***************************************************************************)
(* SpecIds: arm, commit and deleteNode steps under a clock that may return *)
(* the same millisecond to consecutive commits                             *)
(***************************************************************************)
ClockValues == {1, 2}

NextIds ==
  \/ \E k \in SessionKinds : handleClick(k)
  \/ \E p \in Positions, now \in ClockValues : commit(p, now)
  \/ \E i \in nodeIds(nodes) : callDeleteNode(i)

SpecIds == Init /\ [][NextIds]_vars

(***************************************************************************)
(* SpecPlace: the placement state machine over all five templates          *)
(***************************************************************************)
NextPlace ==
  \/ \E i \in DOMAIN nodeTemplates : handleClick(nodeTemplates[i])
  \/ handleKeyDown
  \/ cancelClick
  \/ \E p \in Positions, now \in Timestamps : onPaneClick(p, now)
  \/ \E c \in DragChanges(nodes) : editorOnNodesChange(<<c>>)
  \/ \E k \in OtherKinds : callSetPendingNodeType(k)
  \/ \E i \in nodeIds(nodes) : callDeleteNode(i)

SpecPlace == Init /\ [][NextPlace]_vars

(***************************************************************************)
(* SpecStore: the store's operations on a loaded flow                      *)
(***************************************************************************)
\* the endpoints of a connection: a node id, or null / '' for a missing one
ConnectionEnds(ns) == nodeIds(ns) \cup {Null, ""}

\* the handle pairs of a connection
ConnectionHandles == {<<Null, Null>>, <<"out", "in">>}

\* the connections React Flow reports: between two nodes, or with an endpoint
\* missing
Connections(ns) ==
  {[source |-> a, target |-> b, sourceHandle |-> h[1], targetHandle |-> h[2]] :
     a \in ConnectionEnds(ns), b \in ConnectionEnds(ns), h \in ConnectionHandles}
  \ {c \in [source : nodeIds(ns), target : nodeIds(ns),
             sourceHandle : {Null, "out"}, targetHandle : {Null, "in"}] :
        c.source = c.target}

\* the data handed to updateNode
NodeUpdates == {[description |-> Str("db")]}

NextStore ==
  \/ \E flow \in SavedFlows : loadEffect(flow)
  \/ \E c \in NodeChanges(nodes) : editorOnNodesChange(<<c>>)
  \/ editorSelectFollowUp
  \/ \E i \in edgeIds(edges) : editorOnEdgesChange(<<[type |-> "remove", id |-> i]>>)
  \/ \E c \in Connections(nodes) :
        /\ Len(edges) < MaxStoreEdges
        /\ editorOnConnect(c)
  \/ \E i \in nodeIds(nodes), d \in NodeUpdates : callUpdateNode(i, d)
  \/ \E i \in nodeIds(nodes) : callDeleteNode(i)
  \/ \E i \in nodeIds(nodes) : onNodeClick(i)
  \/ callClearSelection
  \/ \E k \in {nodeTemplates[1], Null} : callSetPendingNodeType(k)
  \/ handleNew

SpecStore == Init /\ [][NextStore]_vars

(***************************************************************************)
(* SpecProps: binding nodes of the five kinds through the property editor  *)
(***************************************************************************)
\* the kinds placed in this session: one whose item is a number, one whose
\* item is a name
PropsKinds == {"gitlab", "jenkins"}

NextProps ==
  \/ \E k \in PropsKinds : handleClick(k)
  \/ \E p \in SessionPositions, now \in Timestamps : onPaneClick(p, now)
  \/ \E n \in Range(nodes) : onNodeClick(n.id)
  \/ \E v \in IntegrationIds : handleIntegrationChange(v)
  \/ \E v \in UNION {ItemOptions(k) : k \in PropsKinds} : handleItemChange(v)
  \/ \E v \in IntegrationIds : handleIntegrationIdChange(v)
  \/ NodeDetailsPanel

SpecProps == Init /\ [][NextProps]_vars

(***************************************************************************)
(* SpecCache: the queries of two kinds under two integrations              *)
(***************************************************************************)
CacheKinds == {"jenkins", "kubernetes"}

NextCache ==
  \/ \E f \in CacheKinds, i \in HookArgs : useNodeData(f, i)
  \/ \E f \in CacheKinds, i \in IntegrationIds, d \in Listings : fetchResolves(f, i, d)
  \/ \E f \in CacheKinds, i \in IntegrationIds, e \in CacheErrors : fetchRejects(f, i, e)
  \/ \E f \in CacheKinds, i \in IntegrationIds : staleTimeElapses(f, i)

SpecCache == Init /\ [][NextCache]_vars

(***************************************************************************)
(* SpecRetry: every query hook under one integration                       *)
(***************************************************************************)
RetryFamilies == NodeDataFamilies \cup {K8sNamespaces}

RetryIds == {"int-1"}

NextRetry ==
  \/ \E f \in RetryFamilies, i \in RetryIds : useNodeData(f, i)
  \/ \E f \in RetryFamilies, i \in RetryIds, d \in Listings : fetchResolves(f, i, d)
  \/ \E f \in RetryFamilies, i \in RetryIds, e \in Errors : fetchRejects(f, i, e)
  \/ \E f \in RetryFamilies, i \in RetryIds : staleTimeElapses(f, i)

SpecRetry == Init /\ [][NextRetry]_vars

(***************************************************************************)
(* SpecPanel: a saved flow on the canvas, its renderers, the details panel *)
(* and the manual refresh                                                  *)
(***************************************************************************)
MaxCommands == 3

\* two saved flows: one with a jenkins and a kubernetes node bound to two
\* integrations, one with a node of the default kind that carries an
\* integration id and an unbound gitlab node
PanelFlows ==
  LET at == [x |-> 0, y |-> 0]
      bound(n, i) == [n EXCEPT !.data = Spread(n.data, [integrationId |-> Str(i)])]
  IN  { [nodes |-> <<bound(newNode("jenkins", at, 1), "int-1"),
                     bound(newNode("kubernetes", at, 1), "int-2")>>,
         edges |-> <<>>,
         viewport |-> NoViewport],
        [nodes |-> <<[id |-> "default-1", type |-> "default", position |-> at,
                      data |-> [label |-> Str("Note"),
                                integrationId |-> Str("int-1")],
                      selected |-> FALSE],
                     newNode("gitlab", at, 1)>>,
         edges |-> <<>>,
         viewport |-> NoViewport] }

PanelListings == {<<"main">>}

NextPanel ==
  \/ \E flow \in PanelFlows : nodes = <<>> /\ loadEffect(flow)
  \/ \E n \in Range(nodes) : onNodeClick(n.id)
  \/ \E n \in Range(nodes) : nodeRenderer(n)
  \/ NodeDetailsPanel
  \/ /\ \A k \in DOMAIN queryCache : queryCache[k].commands + 2 <= MaxCommands
     /\ handleRefresh
  \/ \E f \in CacheKinds, i \in IntegrationIds, d \in PanelListings :
        fetchResolves(f, i, d)
  \/ \E f \in {"jenkins"}, i \in RetryIds, e \in CacheErrors : fetchRejects(f, i, e)
  \/ \E k \in DOMAIN queryCache : cancelledCommandReturns(k)

SpecPanel == Init /\ [][NextPanel]_vars

(***************************************************************************)
(* SpecForm: the property editor over a loaded flow                        *)
(***************************************************************************)
NextForm ==
  \/ \E flow \in PanelFlows : nodes = <<>> /\ loadEffect(flow)
  \/ \E n \in Range(nodes) : onNodeClick(n.id)
  \/ callClearSelection
  \/ NodeDetailsPanel
  \/ \E v \in FieldTexts : handleLabelChange(v)
  \/ \E v \in FieldTexts : handleDescriptionChange(v)
  \/ \E v \in IntegrationIds : handleIntegrationChange(v)
  \/ \E v \in IntegrationIds : handleIntegrationIdChange(v)

SpecForm == Init /\ [][NextForm]_vars

(***************************************************************************)
(* SpecSave: editing, saving and the reload that follows a save            *)
(***************************************************************************)
NextSave ==
  \/ ~saveDialogOpen /\ handleClick(nodeTemplates[1])
  \/ /\ ~saveDialogOpen
     /\ \E p \in SessionPositions, now \in Timestamps : onPaneClick(p, now)
  \/ ~saveDialogOpen /\ \E vp \in Viewports : onMove(vp)
  \/ ~saveDialogOpen /\ \E n \in Range(nodes) : onNodeClick(n.id)
  \/ handleSave
  \/ \E now \in Timestamps : handleSaveConfirm(now)
  \/ closeSaveDialog
  \/ \E i \in DOMAIN mutations : saveResolves(i)
  \/ \E i \in DOMAIN mutations : saveRejects(i)
  \/ \E id \in DOMAIN flowCache : flowFetchResolves(id)

SpecSave == Init /\ [][NextSave]_vars

(***************************************************************************)
(* SpecClosure: pane clicks handled by the callback of the last render     *)
(***************************************************************************)
\* FlowEditorInner renders: useCallback builds onPaneClick over the
\* pendingNodeType of the store
FlowEditorInner ==
  /\ pc = "idle"
  /\ captured # pendingNodeType
  /\ captured' = pendingNodeType
  /\ lastOp' = Op("FlowEditorInner", Null)
  /\ UNCHANGED <<storeVars, pc, selectChange, queryCache, session, form,
                 persistVars>>

\* a click on the pane reaches the onPaneClick of the last render
paneClick(position, now) ==
  /\ pc = "idle"
  /\ (Truthy(captured) /\ captured \in PlaceableKinds) => Len(nodes) < MaxNodes
  /\ Done("onPaneClick", Null, onPaneClickOf(state, captured, position, now))

NextClosure ==
  \/ \E k \in SessionKinds : handleClick(k)
  \/ FlowEditorInner
  \/ \E p \in Positions, now \in Timestamps : paneClick(p, now)

SpecClosure == Init /\ [][NextClosure]_vars

(***************************************************************************)
(* SpecSettle: the jenkins listings under a fetch command that answers     *)
(* every request                                                           *)
(***************************************************************************)
SettleFamilies == {"jenkins", JenkinsJobs}

\* the fetch command answers a request of the pair, with a listing or an error
Answer(family, integrationId) ==
  \/ \E d \in Listings : fetchResolves(family, integrationId, d)
  \/ \E e \in Errors : fetchRejects(family, integrationId, e)

NextSettle ==
  \/ \E f \in SettleFamilies, i \in RetryIds : useNodeData(f, i)
  \/ \E f \in SettleFamilies, i \in RetryIds : Answer(f, i)
  \/ \E f \in SettleFamilies, i \in RetryIds : staleTimeElapses(f, i)

\* every request is answered: the retryer's timers fire and the command of
\* each attempt returns
SpecSettle ==
  /\ Init
  /\ [][NextSettle]_vars
  /\ \A f \in SettleFamilies, i \in RetryIds : WF_vars(Answer(f, i))

(***************************************************************************)
(* SpecSupersede: a bound node whose integration is changed while its      *)
(* listing is being fetched                                                *)
(***************************************************************************)
\* a saved flow with one jenkins node bound to int-1
SupersedeFlows ==
  LET n == newNode("jenkins", [x |-> 0, y |-> 0], 1)
  IN  { [nodes |-> <<[n EXCEPT !.data =
                         Spread(n.data, [integrationId |-> Str("int-1")])]>>,
         edges |-> <<>>,
         viewport |-> NoViewport] }

\* the listing the fetch command returns for an integration
ListingOf(integrationId) == <<"build@" \o integrationId>>

NextSupersede ==
  \/ \E flow \in SupersedeFlows : nodes = <<>> /\ loadEffect(flow)
  \/ \E n \in Range(nodes) : onNodeClick(n.id)
  \/ \E n \in Range(nodes) : nodeRenderer(n)
  \/ NodeDetailsPanel
  \/ \E v \in IntegrationIds : handleIntegrationChange(v)
  \/ \E i \in IntegrationIds : fetchResolves("jenkins", i, ListingOf(i))
  \/ \E i \in IntegrationIds, e \in CacheErrors : fetchRejects("jenkins", i, e)
  \/ \E i \in IntegrationIds : staleTimeElapses("jenkins", i)

SpecSupersede == Init /\ [][NextSupersede]_vars

(***************************************************************************)
(* SpecOptions: the item Select over fetched listings                      *)
(***************************************************************************)
MaxItems == 2

\* a saved flow with a jenkins and a gitlab node bound to one integration
OptionFlows ==
  LET at == [x |-> 0, y |-> 0]
      bound(n, i) == [n EXCEPT !.data = Spread(n.data, [integrationId |-> Str(i)])]
  IN  { [nodes |-> <<bound(newNode("jenkins", at, 1), "int-1"),
                     bound(newNode("gitlab", at, 1), "int-1")>>,
         edges |-> <<>>,
         viewport |-> NoViewport] }

\* the items a command can return: jenkins jobs by name, gitlab projects by id
OptionItems(family) ==
  IF family = "jenkins" THEN {"build", "ops", "draft", "ops/deploy"}
  ELSE {"7", "8"}

OptionListings(family) ==
  UNION {[1..n -> OptionItems(family)] : n \in 1..MaxItems}

NextOptions ==
  \/ \E flow \in OptionFlows : nodes = <<>> /\ loadEffect(flow)
  \/ \E n \in Range(nodes) : onNodeClick(n.id)
  \/ NodeDetailsPanel
  \/ \E f \in {"jenkins", "gitlab"}, i \in RetryIds :
        \E d \in OptionListings(f) : fetchResolves(f, i, d)

SpecOptions == Init /\ [][NextOptions]_vars

(***************************************************************************)
(* Properties                                                              *)
(***************************************************************************)
\* C1 (P1 uniqueness): the node list never contains two nodes with the same
\* id; an add whose id is already in the list does not add a second node.
UniqueNodeIds ==
  \A i, j \in DOMAIN nodes : i # j => nodes[i].id # nodes[j].id

\* C2 (edge referential integrity): every edge's source and target are ids
\* of nodes present in the current node list.
EdgeEndpointsPresent ==
  \A e \in Range(edges) :
     e.source \in nodeIds(nodes) /\ e.target \in nodeIds(nodes)

\* C3 (P3 single selection): at most one node has selected == true at every
\* observation point, the state between the two store writes of the
\* editor's onNodesChange included.
AtMostOneSelected ==
  Cardinality({i \in DOMAIN nodes : nodes[i].selected}) <= 1

\* the label the placement scenario expects for each kind
ExpectedLabel ==
  [gitlab |-> "Gitlab", jenkins |-> "Jenkins", kubernetes |-> "Kubernetes",
   sonarqube |-> "Sonarqube", keycloak |-> "Keycloak"]

\* C4 (P4 placement exactly-once): with a placeable kind K armed, one pane
\* click at canvas position P adds exactly one node, of type K, at P, with
\* label Capitalize(K) and integrationType K, and disarms; with a kind armed,
\* Escape or the cancel button adds no node and disarms.
PlacementExactlyOnce ==
  [][ /\ \A p \in Positions, now \in Timestamps :
           (pendingNodeType \in PlaceableKinds /\ onPaneClick(p, now)) =>
              /\ Len(nodes') = Len(nodes) + 1
              /\ \A i \in DOMAIN nodes : nodes'[i].id = nodes[i].id
              /\ nodes'[Len(nodes')].type = pendingNodeType
              /\ nodes'[Len(nodes')].position = p
              /\ nodes'[Len(nodes')].data.label = Str(ExpectedLabel[pendingNodeType])
              /\ nodes'[Len(nodes')].data.integrationType = Str(pendingNodeType)
              /\ pendingNodeType' = Null
      /\ (Truthy(pendingNodeType) /\ lastOp'.op \in {"handleKeyDown", "cancelClick"}) =>
              /\ nodes' = nodes
              /\ pendingNodeType' = Null
    ]_vars

\* C4 witness: a commit of an armed kubernetes template at (120, 80) onto a
\* graph that already held a node
PlacementWitness ==
  /\ lastOp.op = "onPaneClick"
  /\ lastOp.was = "kubernetes"
  /\ lastOp.nodesBefore = 1
  /\ Len(nodes) = 2
  /\ nodes[2].type = "kubernetes"
  /\ nodes[2].position = [x |-> 120, y |-> 80]
  /\ pendingNodeType = Null

\* the i-th smallest index of the index set K
NthKept(K, i) == CHOOSE j \in K : Cardinality({k \in K : k <= j}) = i

\* new is old restricted to the indices K, in order
IsRestriction(new, old, K) ==
  /\ Len(new) = Cardinality(K)
  /\ \A i \in DOMAIN new : new[i] = old[NthKept(K, i)]

\* C5 (P2 cascade): deleteNode(x) leaves no node with id x and no edge with
\* source or target x, and keeps every other node and every edge not
\* incident to x, unchanged and in order.
DeleteNodeCascades ==
  [][ \A x \in nodeIds(nodes) \cup {AbsentId} :
        (lastOp'.op = "deleteNode" /\ lastOp'.arg = x) =>
           /\ \A n \in Range(nodes') : n.id # x
           /\ \A e \in Range(edges') : e.source # x /\ e.target # x
           /\ IsRestriction(nodes', nodes, {i \in DOMAIN nodes : nodes[i].id # x})
           /\ IsRestriction(edges', edges,
                 {i \in DOMAIN edges : edges[i].source # x /\ edges[i].target # x})
    ]_vars

\* C5 witness: deleteNode removed one of two nodes and the edge incident to it
DeleteNodeWitness ==
  /\ lastOp.op = "deleteNode"
  /\ lastOp.nodesBefore = 2
  /\ lastOp.edgesBefore = 1
  /\ Len(nodes) = 1
  /\ nodes[1].id # lastOp.arg
  /\ edges = <<>>

\* C9 (P5 toggle and switch): a palette click on template K leads from idle
\* to armed(K), from armed(K) to idle and from armed(J), J # K, to armed(K),
\* and leaves nodes, edges, selection and isDirty unchanged.
ArmTransition ==
  [][ \A k \in SessionKinds :
        (lastOp'.op = "handleClick" /\ lastOp'.arg = k) =>
           /\ pendingNodeType = Null => pendingNodeType' = k
           /\ pendingNodeType = k => pendingNodeType' = Null
           /\ pendingNodeType \notin {Null, k} => pendingNodeType' = k
           /\ nodes' = nodes
           /\ edges' = edges
           /\ selectedNodeId' = selectedNodeId
           /\ isDirty' = isDirty
    ]_vars

\* C9 witness: the palette replaced an armed gitlab by jenkins on a graph
\* with a selected node
ArmSwitchWitness ==
  /\ lastOp.op = "handleClick"
  /\ lastOp.was = "gitlab"
  /\ lastOp.arg = "jenkins"
  /\ pendingNodeType = "jenkins"
  /\ selectedNodeId # Null
  /\ Len(nodes) = 2

\* C10 (commit or cancel always disarms): from every state with a kind
\* armed, a pane click, an Escape press and a cancel click each lead to
\* pendingNodeType = null.
CommitOrCancelDisarms ==
  [][ (Truthy(pendingNodeType)
        /\ lastOp'.op \in {"onPaneClick", "handleKeyDown", "cancelClick"})
        => pendingNodeType' = Null
    ]_vars

\* C6 (P6 cascade-clear): a change of integrationId made through the property
\* editor is one updateNode write after which the selected node's
\* data.integrationId is the new id and its kind-specific selected field is
\* undefined.
IntegrationChangeClearsItem ==
  [][ lastOp'.op \in {"handleIntegrationChange", "handleIntegrationIdChange"} =>
        \A n \in Range(nodes') :
           n.id = selectedNodeId =>
              /\ Get(n.data, "integrationId") = Str(lastOp'.arg)
              /\ Get(n.data, selectedField(n.type)) = Undefined ]_vars

\* what the cache holds for a (sourceType, integrationId) pair
View(family, integrationId) ==
  IF queryKey(family, integrationId) \in DOMAIN queryCache
  THEN queryCache[queryKey(family, integrationId)]
  ELSE [status |-> "absent"]

\* this step lands a failed fetch attempt of the pair
FailureLands(family, integrationId) ==
  /\ View(family, integrationId).status # "absent"
  /\ View(family, integrationId).fetchStatus = "fetching"
  /\ View(family, integrationId)'.fetchFailureCount =
        View(family, integrationId).fetchFailureCount + 1

\* C7 (P7 cache key isolation): a fetch failure for one (sourceType,
\* integrationId) changes the entry of that pair only; the entry of every
\* other integrationId under the same sourceType and of every other
\* sourceType is unchanged by the step, in every interleaving.
CacheKeyIsolation ==
  [][ \A f \in NodeDataFamilies, i \in IntegrationIds :
        FailureLands(f, i) =>
           \A g \in NodeDataFamilies, j \in IntegrationIds :
              <<g, j>> # <<f, i>> => View(g, j)' = View(g, j) ]_vars

\* a fetch for one integration has failed for good while the entry of another
\* integration of the same sourceType holds its listing
CacheKeyIsolationWitness ==
  \E f \in NodeDataFamilies, i \in IntegrationIds, j \in IntegrationIds :
     /\ i # j
     /\ View(f, i).status = "error"
     /\ View(f, j).status = "success"

\* C8 (401 never retried): for each of the five node-data queries, once an
\* attempt has failed with a 401 the entry is in status error with no fetch
\* in progress: no retry follows the failure.
UnauthorizedNeverRetried ==
  \A f \in NodeDataFamilies, i \in IntegrationIds :
     (/\ View(f, i).status # "absent"
      /\ View(f, i).fetchFailureReason = "401")
        => /\ View(f, i).status = "error"
           /\ View(f, i).fetchStatus = "idle"

\* the select:true change at position k is the only kind of select:true of
\* the batch: no change of the batch selects another node
SoleSelectTrue(changes, k) ==
  /\ changes[k].type = "select"
  /\ changes[k].selected
  /\ \A j \in DOMAIN changes :
        (changes[j].type = "select" /\ changes[j].selected)
           => changes[j].id = changes[k].id

\* C11 (exclusive selection on select:true): when the batch handed to the
\* editor's onNodesChange holds a select:true change for node X, at any
\* position, then once the handler has finished X is the only node with
\* selected == true and selectedNodeId == X.
SelectTrueIsExclusive ==
  [][ (pc = "selectFollowUp" /\ pc' = "idle") =>
        \A k \in DOMAIN lastOp.arg :
           SoleSelectTrue(lastOp.arg, k) =>
              /\ selectedNodeId' = lastOp.arg[k].id
              /\ \A n \in Range(nodes') : n.selected <=> n.id = lastOp.arg[k].id
    ]_vars

\* this step is the store's onNodesChange (the first write of the editor's
\* handler)
StoreOnNodesChangeStep == pc = "idle" /\ lastOp'.op = "onNodesChange"

\* this step is a setSelectedNodeId: a node click, or the editor's follow-up
\* for a select:true change
SetSelectedNodeIdStep ==
  \/ lastOp'.op = "onNodeClick"
  \/ pc = "selectFollowUp" /\ selectChange.selected /\ pc' = "idle"

\* this step is a clearSelection: called directly, or the editor's follow-up
\* for a select:false change
ClearSelectionStep ==
  \/ lastOp'.op = "clearSelection"
  \/ pc = "selectFollowUp" /\ ~selectChange.selected /\ pc' = "idle"

\* this step is an onConnect whose connection has both endpoints
ValidConnectStep ==
  /\ lastOp'.op = "onConnect"
  /\ Truthy(lastOp'.arg.source)
  /\ Truthy(lastOp'.arg.target)

\* this step is an onConnect whose connection lacks an endpoint
EmptyConnectStep ==
  /\ lastOp'.op = "onConnect"
  /\ ~(Truthy(lastOp'.arg.source) /\ Truthy(lastOp'.arg.target))

\* C12 as stated (dirty flag): after onNodesChange, onEdgesChange, onConnect
\* with valid endpoints, updateNode, deleteNode, setSelectedNodeId and
\* setPendingNodeType isDirty is true, whatever it was before; after loadFlow
\* isDirty is false.
DirtyAfterEveryOperation ==
  [][ /\ (\/ StoreOnNodesChangeStep
          \/ lastOp'.op \in {"onEdgesChange", "updateNode", "deleteNode"}
          \/ ValidConnectStep
          \/ SetSelectedNodeIdStep
          \/ lastOp'.op = "setPendingNodeType") => isDirty'
      /\ lastOp'.op = "loadFlow" => ~isDirty'
    ]_vars

\* C12 amended: onNodesChange, onEdgesChange, onConnect with valid endpoints,
\* updateNode and deleteNode set isDirty; setSelectedNodeId, clearSelection,
\* setPendingNodeType and an onConnect without an endpoint leave isDirty as it
\* was; loadFlow and resetFlow clear it.
DirtyAfterGraphMutation ==
  [][ /\ (\/ StoreOnNodesChangeStep
          \/ lastOp'.op \in {"onEdgesChange", "updateNode", "deleteNode"}
          \/ ValidConnectStep) => isDirty'
      /\ (\/ SetSelectedNodeIdStep
          \/ ClearSelectionStep
          \/ EmptyConnectStep
          \/ lastOp'.op = "setPendingNodeType") => isDirty' = isDirty
      /\ lastOp'.op \in {"loadFlow", "handleNew"} => ~isDirty'
    ]_vars

\* C12 witness: a node of a freshly loaded flow was clicked and the graph is
\* still clean, with that node selected
DirtyWitness ==
  /\ lastOp.op = "onNodeClick"
  /\ selectedNodeId = lastOp.arg
  /\ Len(nodes) = 2
  /\ ~isDirty

\* C13 (connect): onConnect with both endpoints non-empty appends exactly one
\* edge with id edge-<source>-<target>, that source, target and handles,
\* keeping all existing edges and without de-duplication; with source or
\* target empty or undefined it leaves the entire store state, isDirty
\* included, unchanged.
ConnectAppendsOneEdge ==
  [][ /\ ValidConnectStep =>
           LET c == lastOp'.arg
           IN  /\ Len(edges') = Len(edges) + 1
               /\ SubSeq(edges', 1, Len(edges)) = edges
               /\ edges'[Len(edges')] =
                    [id |-> "edge-" \o c.source \o "-" \o c.target,
                     source |-> c.source, target |-> c.target,
                     sourceHandle |-> c.sourceHandle,
                     targetHandle |-> c.targetHandle]
               /\ UNCHANGED <<nodes, viewport, selectedNodeId, pendingNodeType,
                              currentFlowId>>
      /\ EmptyConnectStep => UNCHANGED storeVars ]_vars

\* a repeated connect for the same pair has appended a second edge with the
\* same id
ConnectWitness ==
  /\ lastOp.op = "onConnect"
  /\ Len(edges) = 2
  /\ lastOp.edgesBefore = 1
  /\ edges[1].id = edges[2].id
  /\ edges[2].sourceHandle = "out"

\* C17 (loadGraph): for every prior state, loadFlow(nodes, edges, viewport?)
\* leaves the store with nodes and edges equal to exactly the arguments,
\* viewport equal to the argument or to {x:0, y:0, zoom:1} when absent, the
\* selected id cleared, and isDirty false.
LoadFlowReplaces ==
  [][ lastOp'.op = "loadFlow" =>
        LET flow == lastOp'.arg
        IN  /\ nodes' = flow.nodes
            /\ edges' = flow.edges
            /\ viewport' = IF flow.viewport = NoViewport
                           THEN [x |-> 0, y |-> 0, zoom |-> 1]
                           ELSE flow.viewport
            /\ selectedNodeId' = Null
            /\ ~isDirty' ]_vars

\* a flow without a viewport has been loaded over a graph of two nodes shown
\* under another viewport
LoadFlowWitness ==
  /\ lastOp.op = "loadFlow"
  /\ lastOp.arg.viewport = NoViewport
  /\ lastOp.nodesBefore = 2
  /\ nodes = <<>>
  /\ viewport = initialViewport

\* C19 (no graph mutation without a commit): an Escape press or a cancel click
\* while armed changes only pendingNodeType (nodes, edges, viewport, selection
\* and isDirty are unchanged), an Escape press while idle changes nothing, and
\* a pane click while idle adds no node and only clears the selection.
NoMutationWithoutCommit ==
  [][ /\ (lastOp'.op \in {"handleKeyDown", "cancelClick"} /\ Truthy(pendingNodeType)) =>
           /\ pendingNodeType' = Null
           /\ UNCHANGED <<nodes, edges, viewport, selectedNodeId, isDirty,
                          currentFlowId>>
      /\ (lastOp'.op = "handleKeyDown" /\ ~Truthy(pendingNodeType)) =>
           UNCHANGED storeVars
      /\ (lastOp'.op = "onPaneClick" /\ ~Truthy(pendingNodeType)) =>
           /\ Len(nodes') = Len(nodes)
           /\ \A i \in DOMAIN nodes :
                 /\ nodes'[i] = [nodes[i] EXCEPT !.selected = FALSE]
           /\ selectedNodeId' = Null
           /\ UNCHANGED <<edges, viewport, pendingNodeType, isDirty,
                          currentFlowId>> ]_vars

\* Escape has disarmed the palette over a graph with a selected node and
\* unsaved changes
NoMutationWitness ==
  /\ lastOp.op = "handleKeyDown"
  /\ Truthy(lastOp.was)
  /\ pendingNodeType = Null
  /\ Truthy(selectedNodeId)
  /\ \E n \in Range(nodes) : n.selected
  /\ isDirty

\* C20 (node ids are not reused within a session): for every sequence of arm,
\* commit and deleteNode steps, where the clock read by a commit may return
\* the same millisecond to consecutive commits, the id <kind>-<timestamp>
\* synthesized by a commit differs from the id of every node created earlier
\* in the session, whether that node is still live or was deleted.
NodeIdsNotReused ==
  [][ (lastOp'.op = "onPaneClick" /\ Len(nodes') = Len(nodes) + 1) =>
         nodes'[Len(nodes')].id \notin session.created \cup nodeIds(nodes) ]_vars

\* the query a node of kind f bound to i reads, when a renderer has mounted
Mounted(f, i) == queryKey(f, i) \in DOMAIN queryCache

\* the parts of the status rule that do not depend on the fetched array
StatusRuleFrame(f, i) ==
  LET q == queryCache[queryKey(f, i)]
  IN  /\ ~Truthy(i) =>
           /\ nodeStatus(q) = "initial"
           /\ q.fetchStatus = "idle"
           /\ q.commands = 0
      /\ (Truthy(i) /\ q.fetchStatus = "fetching" /\ q.data = Undefined) =>
           nodeStatus(q) = "loading"
      /\ (Truthy(i) /\ q.status = "error") => nodeStatus(q) = "error"

\* C14 as stated (normalized status rule): for every kind, the status a node
\* exposes is initial when integrationId is absent or empty (and then no fetch
\* is issued), loading while the first fetch is in flight, success once the
\* fetch has completed with any array including the empty array, and error
\* when the fetch collaborator reported failure.
StatusRuleAnyArray ==
  \A f \in CacheKinds, i \in HookArgs :
     Mounted(f, i) =>
        /\ StatusRuleFrame(f, i)
        /\ (Truthy(i) /\ queryCache[queryKey(f, i)].status = "success") =>
              nodeStatus(queryCache[queryKey(f, i)]) = "success"

\* C14 amended: as above, but success only once the fetch has completed with
\* a non-empty array; with the empty array the status is initial.
StatusRuleNonEmpty ==
  \A f \in CacheKinds, i \in HookArgs :
     Mounted(f, i) =>
        /\ StatusRuleFrame(f, i)
        /\ (Truthy(i) /\ queryCache[queryKey(f, i)].status = "success") =>
              nodeStatus(queryCache[queryKey(f, i)]) =
                 IF Len(queryCache[queryKey(f, i)].data) > 0
                 THEN "success" ELSE "initial"

\* the fetch of a bound node has completed with the empty array
StatusRuleWitness ==
  \E f \in CacheKinds, i \in IntegrationIds :
     /\ Mounted(f, i)
     /\ queryCache[queryKey(f, i)].status = "success"
     /\ queryCache[queryKey(f, i)].data = <<>>
     /\ nodeStatus(queryCache[queryKey(f, i)]) = "initial"

\* the refresh of this step is for a node with an integration id and one of
\* the five kinds
BoundRefreshStep ==
  /\ lastOp'.op = "handleRefresh"
  /\ Truthy(lastOp'.arg.integrationId)
  /\ lastOp'.arg.nodeType \in NodeDataFamilies

\* C15 (manual refresh ordering): a manual refresh for a selected node with
\* kind k and integrationId i invalidates the cache entry of exactly the key
\* (k, i) and then fetches it again, so that the refresh always results in a
\* new fetch of that key even when the entry is still inside its freshness
\* window; entries of other keys are not invalidated, and a refresh with no
\* integrationId or no kind does nothing.
RefreshInvalidatesThenFetches ==
  [][ /\ BoundRefreshStep =>
           LET key == <<"flow-node-data", lastOp'.arg.nodeType,
                        lastOp'.arg.integrationId>>
           IN  /\ DOMAIN queryCache' = DOMAIN queryCache
               /\ queryCache'[key].isInvalidated
               /\ queryCache'[key].fetchStatus = "fetching"
               /\ queryCache'[key].commands > queryCache[key].commands
               /\ \A k \in DOMAIN queryCache \ {key} :
                     queryCache'[k] = queryCache[k]
               /\ UNCHANGED storeVars
      /\ (lastOp'.op = "handleRefresh" /\ ~BoundRefreshStep) =>
           UNCHANGED <<queryCache, storeVars>> ]_vars

\* a refresh has started a fetch of an entry that was inside its freshness
\* window, next to another entry with data
RefreshWitness ==
  /\ lastOp.op = "handleRefresh"
  /\ lastOp.arg.nodeType = "jenkins"
  /\ LET q == queryCache[<<"flow-node-data", "jenkins", "int-1">>]
     IN  /\ q.status = "success" /\ ~q.stale
         /\ q.isInvalidated /\ q.fetchStatus = "fetching"
  /\ <<"flow-node-data", "kubernetes", "int-2">> \in DOMAIN queryCache
  /\ queryCache[<<"flow-node-data", "kubernetes", "int-2">>].status = "success"
  /\ ~queryCache[<<"flow-node-data", "kubernetes", "int-2">>].isInvalidated

\* C16 (at most one in-flight fetch per key): while a fetch for a key is in
\* flight, further reads of the same key by other consumers and a manual
\* refresh observe the same in-flight result and do not start a second
\* concurrent request to the fetch collaborator.
OneRequestPerKey ==
  \A k \in DOMAIN queryCache : queryCache[k].commands <= 1

\* the keys for which the step has invoked a fetch command
FetchedInStep ==
  {k \in DOMAIN queryCache' :
     queryCache'[k].commands >
        (IF k \in DOMAIN queryCache THEN queryCache[k].commands ELSE 0)}

\* C18 (polymorphic binding): for a node of kind k in {gitlab, jenkins,
\* kubernetes, sonarqube, keycloak} with integrationId i, exactly one of the
\* five cache queries is enabled, the one of kind k with key (k, i), and the
\* other four issue no fetch; for a node whose kind is unknown or default no
\* query is enabled and the exposed view is empty with status initial,
\* whatever its integrationId.
PanelBinding ==
  [][ lastOp'.op = "NodeDetailsPanel" =>
        LET a == lastOp'.arg
            enabledKinds ==
              {f \in NodeDataFamilies :
                 enabled(panelHookArg(f, a.nodeType, a.integrationId))}
        IN  /\ (a.nodeType \in NodeDataFamilies /\ Truthy(a.integrationId)) =>
                 /\ enabledKinds = {a.nodeType}
                 /\ <<"flow-node-data", a.nodeType, a.integrationId>>
                       \in DOMAIN queryCache'
                 /\ FetchedInStep \subseteq
                       {<<"flow-node-data", a.nodeType, a.integrationId>>}
                 /\ \A f \in NodeDataFamilies \ {a.nodeType} :
                       /\ queryCache'[<<"flow-node-data", f, "">>].commands = 0
                       /\ queryCache'[<<"flow-node-data", f, "">>].fetchStatus = "idle"
            /\ a.nodeType \notin NodeDataFamilies =>
                 /\ enabledKinds = {}
                 /\ FetchedInStep = {}
                 /\ panelView(queryCache', a.nodeType, a.integrationId) =
                       [data |-> Undefined, isLoading |-> FALSE, isError |-> FALSE]
                 /\ currentData(queryCache', a.nodeType, a.integrationId) = <<>>
            /\ UNCHANGED storeVars ]_vars

\* C30 (no cross-node fetch keys): every fetch issued by the property editor
\* or the details panel is for a key (kind, integrationId) such that the
\* currently selected node has that kind and that data.integrationId; when
\* the selection moves from a node of one kind to a node of another kind, no
\* fetch pairs the new node's kind with the previous node's integrationId.
NoCrossNodeFetch ==
  [][ lastOp'.op \in {"NodeDetailsPanel", "handleRefresh"} =>
        \A k \in FetchedInStep :
           /\ hasSelectedNode(state)
           /\ k = <<"flow-node-data", selectedNode(state).type,
                    formIntegrationId(selectedNode(state))>> ]_vars

\* the handlers of the form that edit one of the three mirrored fields, with
\* the data key each writes
FieldOf(op) ==
  CASE op = "handleLabelChange" -> "label"
    [] op = "handleDescriptionChange" -> "description"
    [] OTHER -> "integrationId"

FieldEdits ==
  {"handleLabelChange", "handleDescriptionChange", "handleIntegrationChange",
   "handleIntegrationIdChange"}

\* the form holds the three values of the selected node's data (an absent
\* field shows as the empty text)
FormMirrors(s, f) ==
  /\ f.mounted
  /\ f.node = selectedNode(s).id
  /\ f.label = formFields(selectedNode(s)).label
  /\ f.description = formFields(selectedNode(s)).description
  /\ f.integrationId = formFields(selectedNode(s)).integrationId

BindingItems ==
  LET node == selectedNode(state)
      key == <<"flow-node-data", node.type, formIntegrationId(node)>>
  IN  IF key \in DOMAIN queryCache /\ queryCache[key].status = "success"
      THEN queryCache[key].data
      ELSE <<>>

\* the form shows the selected node, which has an integration set and a
\* listing that is not empty
SelectorCase ==
  /\ formShown
  /\ selectedNode(state).type \in NodeDataFamilies
  /\ formIntegrationId(selectedNode(state)) # ""
  /\ form.integrationId = formIntegrationId(selectedNode(state))
  /\ Len(BindingItems) > 0

ShownOptions == itemSelect(queryCache, form, selectedNode(state)).options

FolderItems(items) ==
  {items[i] : i \in {j \in 1..Len(items) :
      \/ jobColor(items[j]) = "folder"
      \/ jobColor(items[j]) = "notbuilt" /\ items[j] # "ops/deploy"}}

NodeView(cache, n) ==
  LET key == queryKey(n.type, nodeIntegrationId(n))
  IN  IF key \in DOMAIN cache
      THEN [status |-> nodeStatus(cache[key]), items |-> cache[key].data]
      ELSE [status |-> "initial", items |-> Undefined]

\* this step lands the response of a fetch of the pair
ResponseLands(family, integrationId) ==
  /\ lastOp'.op = "useQuery"
  /\ View(family, integrationId).status # "absent"
  /\ View(family, integrationId).fetchStatus = "fetching"
  /\ View(family, integrationId)' # View(family, integrationId)

\* C22 (superseded fetch confinement): when a node's integrationId has changed
\* from A to B while the fetch for (kind, A) was in flight, the late response
\* for A is stored in the entry keyed (kind, A) only; the view the node
\* exposes for (kind, B) never shows items or a status that came from A's
\* response, in every order of the two completions.
SupersededFetchConfined ==
  [][ /\ \A f \in NodeDataFamilies, a \in IntegrationIds :
           ResponseLands(f, a) =>
              /\ \A k \in DOMAIN queryCache :
                    k # queryKey(f, a) => queryCache'[k] = queryCache[k]
              /\ \A n \in Range(nodes) :
                    (n.type = f /\ nodeIntegrationId(n) # a) =>
                       NodeView(queryCache', n) = NodeView(queryCache, n)
      /\ \A n \in Range(nodes') :
           Truthy(nodeIntegrationId(n)) =>
              NodeView(queryCache', n).items
                 \in {Undefined, ListingOf(nodeIntegrationId(n))} ]_vars

\* the node is bound to int-2, whose fetch has failed once and is being
\* retried, and the response for int-1 has arrived in the entry of int-1
SupersededWitness ==
  /\ lastOp.op = "useQuery"
  /\ \E n \in Range(nodes) : n.type = "jenkins" /\ nodeIntegrationId(n) = "int-2"
  /\ View("jenkins", "int-1").status = "success"
  /\ View("jenkins", "int-1").data = ListingOf("int-1")
  /\ View("jenkins", "int-2").status = "pending"
  /\ View("jenkins", "int-2").fetchStatus = "fetching"
  /\ View("jenkins", "int-2").fetchFailureCount = 1

\* this step lands a failed attempt of the pair with an error that is no
\* authorization failure
TransientFailureLands(family, integrationId) ==
  /\ FailureLands(family, integrationId)
  /\ View(family, integrationId)'.fetchFailureReason \in CacheErrors

\* the entry of the pair is in status loading
Loading(family, integrationId) ==
  /\ View(family, integrationId).status # "absent"
  /\ isLoading(View(family, integrationId))

\* the entry of the pair has ended in success or error
Settled(family, integrationId) ==
  /\ View(family, integrationId).status \in {"success", "error"}
  /\ View(family, integrationId).fetchStatus = "idle"

\* C23 (bounded retry and settling): a fetch that keeps failing with an error
\* that is no authorization failure is retried at most 3 times, and the entry
\* then settles in status error; every started fetch leaves status loading in
\* the end, in success or in error, when the fetch command answers every
\* request.
BoundedRetryAndSettling ==
  /\ [][ \A f \in SettleFamilies, i \in RetryIds :
           TransientFailureLands(f, i) =>
              /\ View(f, i).fetchFailureCount <= 3
              /\ View(f, i).fetchFailureCount < 3 =>
                    /\ View(f, i)'.fetchStatus = "fetching"
                    /\ View(f, i)'.status = View(f, i).status
              /\ View(f, i).fetchFailureCount = 3 =>
                    /\ View(f, i)'.status = "error"
                    /\ View(f, i)'.fetchStatus = "idle" ]_vars
  /\ \A f \in SettleFamilies, i \in RetryIds :
        Loading(f, i) ~> Settled(f, i)

\* the fourth attempt of useJenkinsJobs has failed and the entry is in error,
\* while the node-data entry has settled in success
SettlingWitness ==
  /\ View(JenkinsJobs, "int-1").status = "error"
  /\ View(JenkinsJobs, "int-1").fetchFailureCount = 4
  /\ View(JenkinsJobs, "int-1").fetchFailureReason = "500"
  /\ View("jenkins", "int-1").status = "success"

\* the nodes of the list that carry selected == true
SelectedFlags == {i \in DOMAIN nodes : nodes[i].selected}

\* C26 (selection coherence): in every state reachable by onNodesChange,
\* setSelectedNodeId, clearSelection, deleteNode, loadFlow and resetFlow,
\* selectedNodeId is null exactly when no node of the list has selected ==
\* true, and otherwise it is the id of a node of the list, the only one with
\* selected == true.
SelectionCoherent ==
  /\ selectedNodeId = Null <=> SelectedFlags = {}
  /\ selectedNodeId # Null =>
        /\ Cardinality(SelectedFlags) = 1
        /\ \A i \in SelectedFlags : nodes[i].id = selectedNodeId

\* C29 (one arm, at most one node): after a single arm, any number of pane
\* clicks creates at most one node, also when a second click is handled by
\* a pane-click callback that still holds the pendingNodeType captured before
\* the first commit's store update was rendered; the node count grows by
\* exactly the number of arm-then-commit pairs: a pane click adds at most one
\* node, and adds one only when the store is armed with a placeable kind,
\* which it then disarms.
OneArmOneNode ==
  [][ lastOp'.op = "onPaneClick" =>
        /\ Len(nodes') <= Len(nodes) + 1
        /\ Len(nodes') > Len(nodes) =>
              /\ pendingNodeType \in PlaceableKinds
              /\ pendingNodeType' = Null ]_vars

\* this step is the load effect applying a flow that a save of the session
\* wrote
LoadsSavedFlow ==
  /\ lastOp'.op = "loadFlow"
  /\ "updated_at" \in DOMAIN lastOp'.arg

\* what the store held when the save that wrote the loaded flow was invoked
AtSave == savedFrom[lastOp'.arg.updated_at]

\* C21 (save/load round trip): saving the current graph through the toolbar
\* and then loading the saved flow into the store restores nodes, edges and
\* viewport equal to those in the store at the moment of the save; none of
\* the three is lost or replaced by a default.
SaveLoadRoundTrip ==
  [][ LoadsSavedFlow =>
        /\ nodes' = AtSave.nodes
        /\ edges' = AtSave.edges
        /\ viewport' = AtSave.viewport ]_vars

\* C27 (edits survive a save): node, edge, selection and viewport changes made
\* in the store after Save was invoked are not discarded by the save's
\* completion: the load effect that follows the flow re-fetch leaves every
\* one of the four that has changed since the save as it is.
EditsSurviveSave ==
  [][ LoadsSavedFlow =>
        /\ nodes # AtSave.nodes => nodes' = nodes
        /\ edges # AtSave.edges => edges' = edges
        /\ viewport # AtSave.viewport => viewport' = viewport
        /\ selectedNodeId # AtSave.selectedNodeId =>
              selectedNodeId' = selectedNodeId ]_vars

\* a node list without the selected flags
Unselected(ns) == [i \in DOMAIN ns |-> [ns[i] EXCEPT !.selected = FALSE]]

\* the store's nodes and edges are those of the flow, selection aside
SameGraph(flow) ==
  /\ Unselected(nodes) = Unselected(flow.nodes)
  /\ edges = flow.edges

\* C28 (clean means persisted): whenever isDirty is false and currentFlowId is
\* set, the store's nodes and edges equal the copy that was last loaded or
\* last successfully saved for that flow, also when a save fails and when the
\* graph is edited while a save is in flight.
CleanMeansPersisted ==
  (~isDirty /\ Truthy(currentFlowId)) =>
     \/ /\ currentFlowId \in DOMAIN backend
        /\ SameGraph(backend[currentFlowId])
     \/ /\ currentFlowId \in DOMAIN flowCache
        /\ flowCache[currentFlowId].data # NoFlow
        /\ SameGraph(flowCache[currentFlowId].data)

============================================================================
